---- MODULE Spec2Model ----
(***************************************************************************)
(* Model of the document backend of aarsh21/writer (Convex functions):     *)
(* documents.ts, collaborators (part_003), versions.ts, folders (part_005).*)
(* Each handler is one atomic action: every call is atomic against the     *)
(* backing store (spec 5). The exception is autoCreateVersion in the race  *)
(* specification, which is read-compare-insert with no atomic guard (spec  *)
(* 4.3, 9) and is split there into its reads and its writes.               *)
(* A handler that throws stops where it throws: nothing undoes what it     *)
(* wrote before. In the source every throw stands before the handler's     *)
(* first write, so a call that throws leaves every table as it was.        *)
(***************************************************************************)
EXTENDS Integers, Sequences, FiniteSets, Bags, TLC

VARIABLES
    documents,              \* table "documents": id -> row (DOMAIN = ids stored)
    documentCollaborators,  \* table "documentCollaborators": bag of rows
    documentVersions,       \* table "documentVersions": rows in insertion order
    folders,                \* table "folders": id -> row
    userPresence,           \* table "userPresence": <<documentId, userId>> -> lastSeen
    nextDocId,              \* ids handed out by ctx.db.insert are never reused
    nextFolderId,           \* likewise for the folders table
    now,                    \* Date.now(), in milliseconds
    last,                   \* the last call: operation, caller, target, outcome
    beforeDelete,           \* history: the tables just before a deleteDocument
                            \* that was the last call and succeeded
    autoLog,                \* history, per document: when autoCreateVersion last
                            \* inserted, and whether deleteVersion ran since
    inflight                \* per call slot: the autoCreateVersion call that has
                            \* passed the time gate and has not yet inserted

vars == <<documents, documentCollaborators, documentVersions, folders, userPresence,
          nextDocId, nextFolderId, now, last, beforeDelete, autoLog, inflight>>

tables == <<documents, documentCollaborators, documentVersions, folders, userPresence,
            nextDocId, nextFolderId>>

----------------------------------------------------------------------------
(* Bounds of the model *)

MaxDocs == 1
MaxFolders == 1
MaxNow == 1
MaxVersionRows == 2
MaxSurplus == 1
MaxInflight == 2

(* Program constants *)

MAX_VERSIONS == 50
MIN_VERSION_INTERVAL == 5 * 60 * 1000

----------------------------------------------------------------------------
(* Values *)

Users == {"u1", "u2", "u3"}
Anon == "anon"
\* an optional argument is a sequence: empty when the argument is left out,
\* of the one value when it is given
Undefined == <<>>
DocIds == 1 .. MaxDocs
FolderIds == 1 .. MaxFolders
NoFolder == 0
\* JSON.stringify({ type: "doc", content: [] })
DefaultContent == "{\"type\":\"doc\",\"content\":[]}"

roleValidator == {"viewer", "editor", "owner"}

roleHierarchy == [viewer |-> 0, editor |-> 1, owner |-> 2]

\* Times are milliseconds since the epoch, and the process runs in UTC.
MsPerDay == 24 * 60 * 60 * 1000

\* new Date(date.getFullYear(), date.getMonth(), date.getDate()).getTime()
startOfDay(at) == at - (at % MsPerDay)

\* getFullYear, getMonth (from 1 here) and getDate of new Date(at), at >= 0:
\* the civil date of the day number at \div MsPerDay
CivilDate(at) ==
    LET z == (at \div MsPerDay) + 719468
        era == z \div 146097
        doe == z - era * 146097
        yoe == (doe - doe \div 1460 + doe \div 36524 - doe \div 146096) \div 365
        doy == doe - (365 * yoe + yoe \div 4 - yoe \div 100)
        mp == (5 * doy + 2) \div 153
        month == IF mp < 10 THEN mp + 3 ELSE mp - 9
    IN  [year |-> yoe + era * 400 + (IF month <= 2 THEN 1 ELSE 0),
         month |-> month,
         day |-> doy - (153 * mp + 2) \div 5 + 1]

\* date.toLocaleString("en-US", { month: "short" })
MonthShort ==
    <<"Jan", "Feb", "Mar", "Apr", "May", "Jun", "Jul", "Aug", "Sep", "Oct", "Nov", "Dec">>

\* the default title of the count-th document of the day of at
DefaultTitle(at, count) ==
    LET date == CivilDate(at)
        label == MonthShort[date.month] \o " " \o ToString(date.day) \o ", "
                   \o ToString(date.year)
    IN  IF count = 1 THEN label ELSE label \o " (" \o ToString(count) \o ")"

----------------------------------------------------------------------------
(* Database helpers *)

Exists(d) == d \in DOMAIN documents

Grant(d, u, r) == [documentId |-> d, userId |-> u, role |-> r]

\* withIndex("by_document_user", eq documentId, eq userId): the matching rows
by_document_user(d, u) ==
    {g \in BagToSet(documentCollaborators) : g.documentId = d /\ g.userId = u}

\* number of rows the index query matches (a bag may hold a row twice)
MatchCount(d, u) ==
    LET S == by_document_user(d, u)
    IN  IF S = {} THEN 0
        ELSE BagCardinality([g \in S |-> CopiesIn(g, documentCollaborators)])

\* .unique(): null when nothing matches, the row when one does, throws otherwise
UniqueThrows(d, u) == MatchCount(d, u) > 1

HasGrant(d, u) == MatchCount(d, u) = 1

GrantRole(d, u) == (CHOOSE g \in by_document_user(d, u) : TRUE).role

\* withIndex("by_document", eq documentId).collect() on documentVersions
VersionsOf(d) == SelectSeq(documentVersions, LAMBDA v : v.documentId = d)

\* the record of a call: who is the user argument ("-" when the operation has
\* none), ver the position of the version argument (0 when it has none),
\* folder the folder argument (NoFolder when it has none or it is left out);
\* note names the branch the handler took, where it has one
Call(op, u, d, who, ver, code) ==
    [op |-> op, user |-> u, doc |-> d, who |-> who, ver |-> ver, code |-> code,
     folder |-> 0, note |-> "-", out |-> "-"]

NoSnap == [set |-> FALSE]

Snapshot == [set |-> TRUE, documents |-> documents,
             documentCollaborators |-> documentCollaborators,
             documentVersions |-> documentVersions]

Succeeded(call, op) == call.op = op /\ call.code = "ok"

\* the call is recorded in last; the history variables follow from it
Log(call) ==
    /\ last' = call
    /\ beforeDelete' = IF Succeeded(call, "deleteDocument") THEN Snapshot ELSE NoSnap
    /\ autoLog' =
         [d \in DocIds |->
            IF call.op = "autoCreateVersion" /\ call.code = "true" /\ call.doc = d
            THEN [at |-> now, kept |-> TRUE]
            ELSE IF Succeeded(call, "deleteVersion") /\ call.doc = d
            THEN [autoLog[d] EXCEPT !.kept = FALSE]
            ELSE autoLog[d]]

\* a handler that runs in one step: the call is recorded, and the calls in
\* flight stay as they are
Record(call) ==
    /\ Log(call)
    /\ UNCHANGED inflight

\* a call that throws before its first write
Throw(call) ==
    /\ Record(call)
    /\ UNCHANGED <<tables, now>>

----------------------------------------------------------------------------
(* Access control *)

\* checkDocumentAccess that lets every grant pass, whatever its role
checkDocumentAccessAnyGrant(d, u, requiredRole) ==
    IF ~Exists(d) \/ documents[d].isDeleted THEN "NOT_FOUND"
    ELSE IF documents[d].ownerId = u THEN "ok"
    ELSE IF UniqueThrows(d, u) THEN "NOT_UNIQUE"
    ELSE IF ~HasGrant(d, u) THEN "FORBIDDEN"
    ELSE "ok"

\* checkDocumentAccess that looks at the owner before it looks at isDeleted
checkDocumentAccessOwnerFirst(d, u, requiredRole) ==
    IF ~Exists(d) THEN "NOT_FOUND"
    ELSE IF documents[d].ownerId = u THEN "ok"
    ELSE IF documents[d].isDeleted THEN "NOT_FOUND"
    ELSE IF UniqueThrows(d, u) THEN "NOT_UNIQUE"
    ELSE IF ~HasGrant(d, u) THEN "FORBIDDEN"
    ELSE IF roleHierarchy[GrantRole(d, u)] < roleHierarchy[requiredRole] THEN "FORBIDDEN"
    ELSE "ok"

\* documents.ts checkDocumentAccess: "ok" or the error it throws, by kind:
\* "Document not found" is NOT_FOUND, "Access denied: ..." is FORBIDDEN
checkDocumentAccess(d, u, requiredRole) ==
    IF ~Exists(d) \/ documents[d].isDeleted THEN "NOT_FOUND"
    ELSE IF documents[d].ownerId = u THEN "ok"
    ELSE IF UniqueThrows(d, u) THEN "NOT_UNIQUE"
    ELSE IF ~HasGrant(d, u) THEN "FORBIDDEN"
    ELSE IF roleHierarchy[GrantRole(d, u)] < roleHierarchy[requiredRole] THEN "FORBIDDEN"
    ELSE "ok"

----------------------------------------------------------------------------
(* documents.ts *)

\* the documents of the caller created since the start of the day of now
todayDocs(u) ==
    {d \in DOMAIN documents :
       documents[d].ownerId = u /\ documents[d].createdAt >= startOfDay(now)}

\* title, content and parentFolderId are Undefined or NoFolder when left
\* out; an empty title is falsy and gets the default title too
createDocument(u, title, content, parentFolderId) ==
    LET call(code) == Call("createDocument", u, nextDocId, "-", 0, code)
    IN  IF u = Anon THEN Throw(call("UNAUTHORIZED"))
        ELSE
            /\ documents' = documents @@ (nextDocId :>
                 [title |-> IF title = Undefined \/ title[1] = ""
                            THEN DefaultTitle(now, Cardinality(todayDocs(u)) + 1)
                            ELSE title[1],
                  content |-> IF content = Undefined THEN DefaultContent ELSE content[1],
                  ownerId |-> u,
                  createdAt |-> now,
                  updatedAt |-> now,
                  isDeleted |-> FALSE,
                  parentFolderId |-> parentFolderId])
            /\ nextDocId' = nextDocId + 1
            /\ Record(call("ok"))
            /\ UNCHANGED <<documentCollaborators, documentVersions, folders, nextFolderId, userPresence, now>>

\* ctx.db.patch("documents", d, fields) and nothing else
PatchDocument(d, row, call) ==
    /\ documents' = [documents EXCEPT ![d] = row]
    /\ Record(call)
    /\ UNCHANGED <<documentCollaborators, documentVersions, folders, nextFolderId, userPresence,
                   nextDocId, now>>

\* updateDocument that also writes the new title and content into the
\* versions of the document
updateDocumentRewritesVersions(u, d, title, content, parentFolderId) ==
    LET call(code) == Call("updateDocument", u, d, "-", 0, code)
        access == checkDocumentAccess(d, u, "editor")
    IN  IF u = Anon THEN Throw(call("UNAUTHORIZED"))
        ELSE IF access # "ok" THEN Throw(call(access))
        ELSE
            /\ documents' =
                 [documents EXCEPT
                    ![d].updatedAt = now,
                    ![d].title = IF title # Undefined THEN title[1] ELSE @,
                    ![d].content = IF content # Undefined THEN content[1] ELSE @]
            /\ documentVersions' =
                 [i \in 1 .. Len(documentVersions) |->
                    IF documentVersions[i].documentId = d
                    THEN [documentVersions[i] EXCEPT
                            !.title = IF title # Undefined THEN title[1] ELSE @,
                            !.content = IF content # Undefined THEN content[1] ELSE @]
                    ELSE documentVersions[i]]
            /\ Record(call("ok"))
            /\ UNCHANGED <<documentCollaborators, folders, nextFolderId, userPresence, nextDocId, now>>

\* title and content are Undefined, parentFolderId is NoFolder when left out
updateDocument(u, d, title, content, parentFolderId) ==
    LET call(code) == Call("updateDocument", u, d, "-", 0, code)
        access == checkDocumentAccess(d, u, "editor")
    IN  IF u = Anon THEN Throw(call("UNAUTHORIZED"))
        ELSE IF access # "ok" THEN Throw(call(access))
        ELSE
            /\ PatchDocument(d,
                 [documents[d] EXCEPT
                    !.updatedAt = now,
                    !.title = IF title # Undefined THEN title[1] ELSE @,
                    !.content = IF content # Undefined THEN content[1] ELSE @,
                    !.parentFolderId = IF parentFolderId # NoFolder
                                       THEN parentFolderId ELSE @],
                 call("ok"))

renameDocument(u, d, title) ==
    LET call(code) == Call("renameDocument", u, d, "-", 0, code)
        access == checkDocumentAccess(d, u, "editor")
    IN  IF u = Anon THEN Throw(call("UNAUTHORIZED"))
        ELSE IF access # "ok" THEN Throw(call(access))
        ELSE
            /\ PatchDocument(d, [documents[d] EXCEPT !.title = title, !.updatedAt = now],
                             call("ok"))

deleteDocument(u, d) ==
    LET call(code) == Call("deleteDocument", u, d, "-", 0, code)
        access == checkDocumentAccess(d, u, "owner")
    IN  IF u = Anon THEN Throw(call("UNAUTHORIZED"))
        ELSE IF access # "ok" THEN Throw(call(access))
        ELSE
            /\ PatchDocument(d, [documents[d] EXCEPT !.isDeleted = TRUE, !.updatedAt = now],
                             call("ok"))

restoreDocument(u, d) ==
    LET call(code) == Call("restoreDocument", u, d, "-", 0, code)
    IN  IF u = Anon THEN Throw(call("UNAUTHORIZED"))
        ELSE IF ~Exists(d) THEN Throw(call("NOT_FOUND"))
        ELSE IF documents[d].ownerId # u THEN Throw(call("FORBIDDEN"))
        ELSE
            /\ PatchDocument(d, [documents[d] EXCEPT !.isDeleted = FALSE, !.updatedAt = now],
                             call("ok"))

\* targetFolderId is optional: NoFolder stands for the argument left out
moveDocument(u, d, targetFolderId) ==
    LET call(code) == [Call("moveDocument", u, d, "-", 0, code)
                          EXCEPT !.folder = targetFolderId]
        access == checkDocumentAccess(d, u, "editor")
    IN  IF u = Anon THEN Throw(call("UNAUTHORIZED"))
        ELSE IF access # "ok" THEN Throw(call(access))
        ELSE IF /\ targetFolderId # NoFolder
                /\ \/ targetFolderId \notin DOMAIN folders
                   \/ folders[targetFolderId].ownerId # u
             THEN Throw(call("FOLDER_REJECTED"))
        ELSE
            /\ PatchDocument(d, [documents[d] EXCEPT !.parentFolderId = targetFolderId,
                                                     !.updatedAt = now],
                             call("ok"))

\* checkDocumentAccess is called without requiredRole: the default is "viewer"
duplicateDocument(u, d) ==
    LET call(code) == Call("duplicateDocument", u, d, "-", 0, code)
        access == checkDocumentAccess(d, u, "viewer")
    IN  IF u = Anon THEN Throw(call("UNAUTHORIZED"))
        ELSE IF access # "ok" THEN Throw(call(access))
        ELSE
            /\ documents' = documents @@ (nextDocId :>
                 [title |-> documents[d].title \o " (Copy)",
                  content |-> documents[d].content,
                  ownerId |-> u,
                  createdAt |-> now,
                  updatedAt |-> now,
                  isDeleted |-> FALSE,
                  parentFolderId |-> documents[d].parentFolderId])
            /\ nextDocId' = nextDocId + 1
            /\ Record(call("ok"))
            /\ UNCHANGED <<documentCollaborators, documentVersions, folders, nextFolderId, userPresence, now>>

\* the role checkDocumentAccess returns for a caller it lets through
resolvedRole(d, u) ==
    IF documents[d].ownerId = u THEN "owner" ELSE GrantRole(d, u)

\* the requiredRole each mutation passes to checkDocumentAccess
requiredRole ==
    [updateDocument |-> "editor", renameDocument |-> "editor",
     moveDocument |-> "editor", deleteDocument |-> "owner"]

\* what a query gives when its .unique() throws
NotUnique == "NOT_UNIQUE"

\* Queries return rows; the model gives the ids of the documents returned.
\* getDocument: {d} when the document is returned, {} when null is; the
\* grant is looked up with .unique() before isOwner is read
getDocumentThrows(u, d) ==
    /\ u # Anon
    /\ Exists(d)
    /\ ~documents[d].isDeleted
    /\ UniqueThrows(d, u)

getDocument(u, d) ==
    IF u = Anon THEN {}
    ELSE IF ~Exists(d) \/ documents[d].isDeleted THEN {}
    ELSE IF getDocumentThrows(u, d) THEN NotUnique
    ELSE IF documents[d].ownerId # u /\ ~HasGrant(d, u) THEN {}
    ELSE {d}

\* listDocuments: folderId is NoFolder when left out, includeDeleted is FALSE
\* when left out (undefined is falsy)
listDocuments(u, folderId, includeDeleted) ==
    LET owned == {d \in DOMAIN documents : documents[d].ownerId = u}
        filteredOwned ==
            {d \in owned : /\ folderId = NoFolder \/ documents[d].parentFolderId = folderId
                           /\ includeDeleted \/ ~documents[d].isDeleted}
        collaborations == {g \in BagToSet(documentCollaborators) : g.userId = u}
        shared == {g.documentId : g \in collaborations} \cap DOMAIN documents
        filteredShared ==
            {d \in shared : /\ includeDeleted \/ ~documents[d].isDeleted
                            /\ folderId = NoFolder \/ documents[d].parentFolderId = folderId}
    IN  IF u = Anon THEN {} ELSE filteredOwned \cup filteredShared

\* the rows of the three dependent tables that do not reference document d
GrantsNotOf(d) ==
    LET S == {g \in BagToSet(documentCollaborators) : g.documentId # d}
    IN  [g \in S |-> CopiesIn(g, documentCollaborators)]

VersionsNotOf(d) == SelectSeq(documentVersions, LAMBDA v : v.documentId # d)

PresenceNotOf(d) ==
    [k \in {x \in DOMAIN userPresence : x[1] # d} |-> userPresence[k]]

\* ctx.db.delete("documents", d)
DocumentsWithout(d) == [e \in DOMAIN documents \ {d} |-> documents[e]]

\* permanentlyDeleteDocument that leaves the versions of the document stored
permanentlyDeleteDocumentKeepsVersions(u, d) ==
    LET call(code) == Call("permanentlyDeleteDocument", u, d, "-", 0, code)
    IN  IF u = Anon THEN Throw(call("UNAUTHORIZED"))
        ELSE IF ~Exists(d) THEN Throw(call("NOT_FOUND"))
        ELSE IF documents[d].ownerId # u THEN Throw(call("FORBIDDEN"))
        ELSE
            /\ documentCollaborators' = GrantsNotOf(d)
            /\ userPresence' = PresenceNotOf(d)
            /\ documents' = DocumentsWithout(d)
            /\ Record(call("ok"))
            /\ UNCHANGED <<documentVersions, folders, nextFolderId, nextDocId, now>>

\* permanentlyDeleteDocument that leaves the grants of the document stored
permanentlyDeleteDocumentKeepsGrants(u, d) ==
    LET call(code) == Call("permanentlyDeleteDocument", u, d, "-", 0, code)
        cascade == /\ GrantsNotOf(d) # documentCollaborators
                   /\ VersionsNotOf(d) # documentVersions
                   /\ PresenceNotOf(d) # userPresence
    IN  IF u = Anon THEN Throw(call("UNAUTHORIZED"))
        ELSE IF ~Exists(d) THEN Throw(call("NOT_FOUND"))
        ELSE IF documents[d].ownerId # u THEN Throw(call("FORBIDDEN"))
        ELSE
            /\ documentVersions' = VersionsNotOf(d)
            /\ userPresence' = PresenceNotOf(d)
            /\ documents' = DocumentsWithout(d)
            /\ Record([call("ok") EXCEPT !.note = IF cascade THEN "cascade" ELSE "-"])
            /\ UNCHANGED <<documentCollaborators, folders, nextFolderId, nextDocId, now>>

\* note is "cascade" when the document had grants, versions and presence rows
permanentlyDeleteDocument(u, d) ==
    LET call(code) == Call("permanentlyDeleteDocument", u, d, "-", 0, code)
        cascade == /\ GrantsNotOf(d) # documentCollaborators
                   /\ VersionsNotOf(d) # documentVersions
                   /\ PresenceNotOf(d) # userPresence
    IN  IF u = Anon THEN Throw(call("UNAUTHORIZED"))
        ELSE IF ~Exists(d) THEN Throw(call("NOT_FOUND"))
        ELSE IF documents[d].ownerId # u THEN Throw(call("FORBIDDEN"))
        ELSE
            /\ documentCollaborators' = GrantsNotOf(d)
            /\ documentVersions' = VersionsNotOf(d)
            /\ userPresence' = PresenceNotOf(d)
            /\ documents' = DocumentsWithout(d)
            /\ Record([call("ok") EXCEPT !.note = IF cascade THEN "cascade" ELSE "-"])
            /\ UNCHANGED <<folders, nextFolderId, nextDocId, now>>

\* the rows that reference none of the documents in D
RowsKept(D) ==
    [documents |-> [e \in DOMAIN documents \ D |-> documents[e]],
     documentCollaborators |->
        LET S == {g \in BagToSet(documentCollaborators) : g.documentId \notin D}
        IN  [g \in S |-> CopiesIn(g, documentCollaborators)],
     documentVersions |-> SelectSeq(documentVersions, LAMBDA v : v.documentId \notin D),
     userPresence |-> [k \in {x \in DOMAIN userPresence : x[1] \notin D} |-> userPresence[k]]]

\* emptyTrash that takes the soft-deleted documents of every owner
emptyTrashEveryOwner(u) ==
    LET call(code) == Call("emptyTrash", u, 0, "-", 0, code)
        deletedDocs == {d \in DOMAIN documents : documents[d].isDeleted}
        kept == RowsKept(deletedDocs)
    IN  IF u = Anon THEN Throw(call("UNAUTHORIZED"))
        ELSE
            /\ documentCollaborators' = kept.documentCollaborators
            /\ documentVersions' = kept.documentVersions
            /\ userPresence' = kept.userPresence
            /\ documents' = kept.documents
            /\ Record([call("ok") EXCEPT !.out = ToString(Cardinality(deletedDocs))])
            /\ UNCHANGED <<folders, nextFolderId, nextDocId, now>>

\* emptyTrash: the by_owner_deleted index gives the soft-deleted documents of
\* the caller; out is how many there were
emptyTrash(u) ==
    LET call(code) == Call("emptyTrash", u, 0, "-", 0, code)
        deletedDocs == {d \in DOMAIN documents :
                          documents[d].ownerId = u /\ documents[d].isDeleted}
        kept == RowsKept(deletedDocs)
    IN  IF u = Anon THEN Throw(call("UNAUTHORIZED"))
        ELSE
            /\ documentCollaborators' = kept.documentCollaborators
            /\ documentVersions' = kept.documentVersions
            /\ userPresence' = kept.userPresence
            /\ documents' = kept.documents
            /\ Record([call("ok") EXCEPT !.out = ToString(Cardinality(deletedDocs))])
            /\ UNCHANGED <<folders, nextFolderId, nextDocId, now>>

----------------------------------------------------------------------------
(* realtime.ts *)

\* the checkDocumentAccess of realtime.ts: its errors are plain Errors, named
\* here by their kind
realtimeCheckDocumentAccess(d, u, required) ==
    IF ~Exists(d) \/ documents[d].isDeleted THEN "NOT_FOUND"
    ELSE IF documents[d].ownerId = u THEN "ok"
    ELSE IF UniqueThrows(d, u) THEN "NOT_UNIQUE"
    ELSE IF ~HasGrant(d, u) THEN "FORBIDDEN"
    ELSE IF roleHierarchy[GrantRole(d, u)] < roleHierarchy[required] THEN "FORBIDDEN"
    ELSE "ok"

updateDocumentContent(u, d, content) ==
    LET call(code) == Call("updateDocumentContent", u, d, "-", 0, code)
        access == realtimeCheckDocumentAccess(d, u, "editor")
    IN  IF u = Anon THEN Throw(call("UNAUTHORIZED"))
        ELSE IF access # "ok" THEN Throw(call(access))
        ELSE PatchDocument(d, [documents[d] EXCEPT !.content = content, !.updatedAt = now],
                           call("ok"))

updateDocumentTitle(u, d, title) ==
    LET call(code) == Call("updateDocumentTitle", u, d, "-", 0, code)
        access == realtimeCheckDocumentAccess(d, u, "editor")
    IN  IF u = Anon THEN Throw(call("UNAUTHORIZED"))
        ELSE IF access # "ok" THEN Throw(call(access))
        ELSE PatchDocument(d, [documents[d] EXCEPT !.title = title, !.updatedAt = now],
                           call("ok"))

batchUpdateDocument(u, d, title, content) ==
    LET call(code) == Call("batchUpdateDocument", u, d, "-", 0, code)
        access == realtimeCheckDocumentAccess(d, u, "editor")
    IN  IF u = Anon THEN Throw(call("UNAUTHORIZED"))
        ELSE IF access # "ok" THEN Throw(call(access))
        ELSE PatchDocument(d,
                 [documents[d] EXCEPT
                    !.updatedAt = now,
                    !.title = IF title # Undefined THEN title[1] ELSE @,
                    !.content = IF content # Undefined THEN content[1] ELSE @],
                 call("ok"))

----------------------------------------------------------------------------
(* prosemirror.ts: the callbacks handed to the sync component; the ids of the
   model are well-formed document ids *)

checkRead(d, u) ==
    IF u = Anon THEN "UNAUTHORIZED"
    ELSE IF ~Exists(d) \/ documents[d].isDeleted THEN "NOT_FOUND"
    ELSE IF documents[d].ownerId = u THEN "ok"
    ELSE IF UniqueThrows(d, u) THEN "NOT_UNIQUE"
    ELSE IF ~HasGrant(d, u) THEN "FORBIDDEN"
    ELSE "ok"

checkWrite(d, u) ==
    IF u = Anon THEN "UNAUTHORIZED"
    ELSE IF ~Exists(d) \/ documents[d].isDeleted THEN "NOT_FOUND"
    ELSE IF documents[d].ownerId = u THEN "ok"
    ELSE IF UniqueThrows(d, u) THEN "NOT_UNIQUE"
    ELSE IF ~HasGrant(d, u) THEN "FORBIDDEN"
    ELSE IF GrantRole(d, u) = "viewer" THEN "FORBIDDEN"
    ELSE "ok"

\* the write check of the live sync, as the sync component calls it before it
\* takes a client's write: the check itself writes nothing
prosemirrorCheckWrite(u, d) ==
    Throw(Call("checkWrite", u, d, "-", 0, checkWrite(d, u)))

\* onSnapshot of the live sync, which the sync component calls with a
\* snapshot it has accepted: content and updatedAt are patched, on a
\* soft-deleted document too; it looks at no caller and no grant. The patch
\* of a document that is not stored throws, and the error is caught and
\* logged (note "logged"). The version argument is not used
onSnapshot(d, snapshot) ==
    LET call == Call("onSnapshot", "-", d, "-", 0, "ok")
    IN  IF ~Exists(d) THEN Throw([call EXCEPT !.note = "logged"])
        ELSE PatchDocument(d, [documents[d] EXCEPT !.content = snapshot, !.updatedAt = now],
                           call)

subscribeToDocument(u, d) ==
    IF u = Anon THEN {}
    ELSE IF ~Exists(d) \/ documents[d].isDeleted THEN {}
    ELSE IF UniqueThrows(d, u) THEN NotUnique
    ELSE IF documents[d].ownerId # u /\ ~HasGrant(d, u) THEN {}
    ELSE {d}

\* checkDocumentVersion: the updatedAt of any stored document, live or
\* soft-deleted, for any caller with an identity; it looks at no grant
checkDocumentVersion(u, d, lastKnownUpdate) ==
    IF u = Anon THEN [hasChanged |-> FALSE, currentUpdatedAt |-> 0]
    ELSE IF ~Exists(d) THEN [hasChanged |-> FALSE, currentUpdatedAt |-> 0]
    ELSE [hasChanged |-> documents[d].updatedAt > lastKnownUpdate,
          currentUpdatedAt |-> documents[d].updatedAt]

----------------------------------------------------------------------------
(* collaborators (src/unnamed/part_003) *)

\* ctx.db.delete of the one userPresence row of (d, u), when there is one
DropPresence(d, u) ==
    [k \in DOMAIN userPresence \ {<<d, u>>} |-> userPresence[k]]

\* addCollaborator without the lookup of an existing grant
addCollaboratorNoLookup(u, d, userId, role) ==
    LET call(code) == Call("addCollaborator", u, d, userId, 0, code)
    IN  IF u = Anon THEN Throw(call("UNAUTHORIZED"))
        ELSE IF ~Exists(d) \/ documents[d].isDeleted THEN Throw(call("NOT_FOUND"))
        ELSE IF documents[d].ownerId # u THEN Throw(call("FORBIDDEN"))
        ELSE IF userId = documents[d].ownerId THEN Throw(call("VALIDATION_ERROR"))
        ELSE
            /\ documentCollaborators' =
                 documentCollaborators (+) SetToBag({Grant(d, userId, role)})
            /\ Record(call("ok"))
            /\ UNCHANGED <<documents, documentVersions, folders, nextFolderId, userPresence,
                           nextDocId, now>>

addCollaborator(u, d, userId, role) ==
    LET call(code) == Call("addCollaborator", u, d, userId, 0, code)
    IN  IF u = Anon THEN Throw(call("UNAUTHORIZED"))
        ELSE IF ~Exists(d) \/ documents[d].isDeleted THEN Throw(call("NOT_FOUND"))
        ELSE IF documents[d].ownerId # u THEN Throw(call("FORBIDDEN"))
        ELSE IF userId = documents[d].ownerId THEN Throw(call("VALIDATION_ERROR"))
        ELSE IF UniqueThrows(d, userId) THEN Throw(call("NOT_UNIQUE"))
        ELSE IF HasGrant(d, userId) THEN Throw(call("CONFLICT"))
        ELSE
            /\ documentCollaborators' =
                 documentCollaborators (+) SetToBag({Grant(d, userId, role)})
            /\ Record(call("ok"))
            /\ UNCHANGED <<documents, documentVersions, folders, nextFolderId, userPresence,
                           nextDocId, now>>

\* A string argument whose characters matter is the sequence of its UTF-16
\* code units.

\* the WhiteSpace and LineTerminator code points of ECMAScript: TAB, LF, VT,
\* FF, CR, SP, NBSP, the other space separators (U+1680, U+2000 to U+200A,
\* U+202F, U+205F, U+3000), LS, PS and ZWNBSP
WhiteSpace ==
    {9, 10, 11, 12, 13, 32, 160, 5760, 8232, 8233, 8239, 8287, 12288, 65279}
        \cup (8192 .. 8202)

\* String.prototype.trim: white space and line terminators go from both ends
RECURSIVE trim(_)
trim(string) ==
    IF string = <<>> THEN <<>>
    ELSE IF Head(string) \in WhiteSpace THEN trim(Tail(string))
    ELSE IF string[Len(string)] \in WhiteSpace
         THEN trim(SubSeq(string, 1, Len(string) - 1))
    ELSE string

\* the code units toLowerCase is modelled on: Basic Latin and Latin-1
\* Supplement, and the white space above
Latin1 == 0 .. 255

\* the lower-case mapping of Unicode on these code units: A to Z, and the
\* Latin-1 capitals but the multiplication sign, move up by 32
LowerOf ==
    [c \in Latin1 \cup WhiteSpace |->
        IF c \in (65 .. 90) \cup (192 .. 214) \cup (216 .. 222) THEN c + 32 ELSE c]

\* String.prototype.toLowerCase
RECURSIVE toLowerCase(_)
toLowerCase(string) ==
    IF string = <<>> THEN <<>>
    ELSE <<LowerOf[Head(string)]>> \o toLowerCase(Tail(string))

\* what findOne of the auth component answers: no user
NoUser == <<>>

\* targetUser is the answer of components.betterAuth.adapter.findOne to the
\* normalized username, <<userId>> or NoUser: the component keeps the
\* usernames, so its answer is an input of the call. who is the user the
\* username resolved to ("-" while the handler has not looked it up)
addCollaboratorByUsername(u, d, username, role, targetUser) ==
    LET normalizedUsername == toLowerCase(trim(username))
        userId == IF targetUser = NoUser THEN "-" ELSE targetUser[1]
        before(code) == Call("addCollaboratorByUsername", u, d, "-", 0, code)
        call(code) == Call("addCollaboratorByUsername", u, d, userId, 0, code)
    IN  IF u = Anon THEN Throw(before("UNAUTHORIZED"))
        ELSE IF ~Exists(d) \/ documents[d].isDeleted THEN Throw(before("NOT_FOUND"))
        ELSE IF documents[d].ownerId # u THEN Throw(before("FORBIDDEN"))
        ELSE IF normalizedUsername = <<>>
             THEN Throw([before("VALIDATION_ERROR") EXCEPT !.note = "blank"])
        ELSE IF targetUser = NoUser THEN Throw(call("NOT_FOUND"))
        ELSE IF userId = documents[d].ownerId THEN Throw(call("VALIDATION_ERROR"))
        ELSE IF UniqueThrows(d, userId) THEN Throw(call("NOT_UNIQUE"))
        ELSE IF HasGrant(d, userId) THEN Throw(call("CONFLICT"))
        ELSE
            /\ documentCollaborators' =
                 documentCollaborators (+) SetToBag({Grant(d, userId, role)})
            /\ Record(call("ok"))
            /\ UNCHANGED <<documents, documentVersions, folders, nextFolderId, userPresence,
                           nextDocId, now>>

removeCollaborator(u, d, userId) ==
    LET call(code) == Call("removeCollaborator", u, d, userId, 0, code)
    IN  IF u = Anon THEN Throw(call("UNAUTHORIZED"))
        ELSE IF ~Exists(d) THEN Throw(call("NOT_FOUND"))
        ELSE IF documents[d].ownerId # u THEN Throw(call("FORBIDDEN"))
        ELSE IF UniqueThrows(d, userId) THEN Throw(call("NOT_UNIQUE"))
        ELSE IF ~HasGrant(d, userId) THEN Throw(call("NOT_FOUND"))
        ELSE
            /\ documentCollaborators' =
                 documentCollaborators (-) SetToBag({Grant(d, userId, GrantRole(d, userId))})
            /\ userPresence' = DropPresence(d, userId)
            /\ Record(call("ok"))
            /\ UNCHANGED <<documents, documentVersions, folders, nextFolderId, nextDocId, now>>

updateCollaboratorRole(u, d, userId, newRole) ==
    LET call(code) == Call("updateCollaboratorRole", u, d, userId, 0, code)
    IN  IF u = Anon THEN Throw(call("UNAUTHORIZED"))
        ELSE IF ~Exists(d) THEN Throw(call("NOT_FOUND"))
        ELSE IF documents[d].ownerId # u THEN Throw(call("FORBIDDEN"))
        ELSE IF UniqueThrows(d, userId) THEN Throw(call("NOT_UNIQUE"))
        ELSE IF ~HasGrant(d, userId) THEN Throw(call("NOT_FOUND"))
        ELSE
            /\ documentCollaborators' =
                 (documentCollaborators (-) SetToBag({Grant(d, userId, GrantRole(d, userId))}))
                 (+) SetToBag({Grant(d, userId, newRole)})
            /\ Record(call("ok"))
            /\ UNCHANGED <<documents, documentVersions, folders, nextFolderId, userPresence,
                           nextDocId, now>>

\* the handler never reads the document: d may be absent or soft-deleted
leaveDocument(u, d) ==
    LET call(code) == Call("leaveDocument", u, d, "-", 0, code)
    IN  IF u = Anon THEN Throw(call("UNAUTHORIZED"))
        ELSE IF UniqueThrows(d, u) THEN Throw(call("NOT_UNIQUE"))
        ELSE IF ~HasGrant(d, u) THEN Throw(call("NOT_FOUND"))
        ELSE
            /\ documentCollaborators' =
                 documentCollaborators (-) SetToBag({Grant(d, u, GrantRole(d, u))})
            /\ userPresence' = DropPresence(d, u)
            /\ Record(call("ok"))
            /\ UNCHANGED <<documents, documentVersions, folders, nextFolderId, nextDocId, now>>

\* transferOwnership that leaves the new owner's grant in place
transferOwnershipKeepsGrant(u, d, newOwnerId) ==
    LET call(code) == Call("transferOwnership", u, d, newOwnerId, 0, code)
    IN  IF u = Anon THEN Throw(call("UNAUTHORIZED"))
        ELSE IF ~Exists(d) THEN Throw(call("NOT_FOUND"))
        ELSE IF documents[d].ownerId # u THEN Throw(call("FORBIDDEN"))
        ELSE IF newOwnerId = u THEN Throw(call("VALIDATION_ERROR"))
        ELSE
            /\ documentCollaborators' =
                 documentCollaborators (+) SetToBag({Grant(d, u, "editor")})
            /\ documents' = [documents EXCEPT ![d].ownerId = newOwnerId,
                                              ![d].updatedAt = now]
            /\ Record(call("ok"))
            /\ UNCHANGED <<documentVersions, folders, nextFolderId, userPresence, nextDocId, now>>

transferOwnership(u, d, newOwnerId) ==
    LET call(code) == Call("transferOwnership", u, d, newOwnerId, 0, code)
        existing == IF HasGrant(d, newOwnerId)
                    THEN SetToBag({Grant(d, newOwnerId, GrantRole(d, newOwnerId))})
                    ELSE EmptyBag
    IN  IF u = Anon THEN Throw(call("UNAUTHORIZED"))
        ELSE IF ~Exists(d) THEN Throw(call("NOT_FOUND"))
        ELSE IF documents[d].ownerId # u THEN Throw(call("FORBIDDEN"))
        ELSE IF newOwnerId = u THEN Throw(call("VALIDATION_ERROR"))
        ELSE IF UniqueThrows(d, newOwnerId) THEN Throw(call("NOT_UNIQUE"))
        ELSE
            /\ documentCollaborators' =
                 (documentCollaborators (-) existing) (+) SetToBag({Grant(d, u, "editor")})
            /\ documents' = [documents EXCEPT ![d].ownerId = newOwnerId,
                                              ![d].updatedAt = now]
            /\ Record([call("ok") EXCEPT
                          !.note = IF existing = EmptyBag THEN "-" ELSE "existing"])
            /\ UNCHANGED <<documentVersions, folders, nextFolderId, userPresence, nextDocId, now>>

getSharedDocuments(u) ==
    LET collaborations == {g \in BagToSet(documentCollaborators) : g.userId = u}
    IN  IF u = Anon THEN {}
        ELSE {g.documentId : g \in {c \in collaborations :
                                      /\ Exists(c.documentId)
                                      /\ ~documents[c.documentId].isDeleted}}

\* checkAccess query: what it returns to caller u
checkAccess(u, d) ==
    IF u = Anon THEN [hasAccess |-> FALSE]
    ELSE IF ~Exists(d) \/ documents[d].isDeleted THEN [hasAccess |-> FALSE]
    ELSE IF documents[d].ownerId = u
         THEN [hasAccess |-> TRUE, role |-> "owner", isOwner |-> TRUE]
    ELSE IF UniqueThrows(d, u) THEN NotUnique
    ELSE IF HasGrant(d, u)
         THEN [hasAccess |-> TRUE, role |-> GrantRole(d, u), isOwner |-> FALSE]
    ELSE [hasAccess |-> FALSE]

----------------------------------------------------------------------------
(* versions.ts *)

\* versions.ts checkDocumentAccess (no required role): "ok" or the error thrown
versionsCheckDocumentAccess(d, u) ==
    IF ~Exists(d) \/ documents[d].isDeleted THEN "NOT_FOUND"
    ELSE IF documents[d].ownerId = u THEN "ok"
    ELSE IF UniqueThrows(d, u) THEN "NOT_UNIQUE"
    ELSE IF ~HasGrant(d, u) THEN "FORBIDDEN"
    ELSE "ok"

Version(d, u) ==
    [documentId |-> d, content |-> documents[d].content, title |-> documents[d].title,
     createdAt |-> now, createdBy |-> u]

\* positions in table t of the versions of document d
PositionsOf(t, d) == {i \in 1 .. Len(t) : t[i].documentId = d}

\* place of position i in [...rows].sort((a, b) => a.createdAt - b.createdAt) over
\* the positions P of t, counted from 0; Array.prototype.sort is stable
AscendingIndex(t, P, i) ==
    Cardinality({j \in P : \/ t[j].createdAt < t[i].createdAt
                           \/ t[j].createdAt = t[i].createdAt /\ j < i})

\* place of position i in [...rows].sort((a, b) => b.createdAt - a.createdAt)
DescendingIndex(t, P, i) ==
    Cardinality({j \in P : \/ t[j].createdAt > t[i].createdAt
                           \/ t[j].createdAt = t[i].createdAt /\ j < i})

\* the positions of the n newest versions, where the code takes the n oldest
NewestPositions(t, P, n) == {i \in P : DescendingIndex(t, P, i) < n}

\* sorted.slice(0, n): the positions of the n oldest versions
OldestPositions(t, P, n) == {i \in P : AscendingIndex(t, P, i) < n}

\* ctx.db.delete of every position in D
DeletePositions(t, D) ==
    LET K == (1 .. Len(t)) \ D
        nth(n) == CHOOSE k \in K : Cardinality({j \in K : j < k}) = n - 1
    IN  [n \in 1 .. Cardinality(K) |-> t[nth(n)]]

\* [...versions].sort((a, b) => b.createdAt - a.createdAt)[0], as a position
LatestPosition(t, P) == CHOOSE i \in P : DescendingIndex(t, P, i) = 0

createVersion(u, d) ==
    LET call(code) == Call("createVersion", u, d, "-", 0, code)
        access == versionsCheckDocumentAccess(d, u)
        inserted == Append(documentVersions, Version(d, u))
        all == PositionsOf(inserted, d)
        toDelete == IF Cardinality(all) > MAX_VERSIONS
                    THEN OldestPositions(inserted, all, Cardinality(all) - MAX_VERSIONS)
                    ELSE {}
    IN  IF u = Anon THEN Throw(call("UNAUTHORIZED"))
        ELSE IF access # "ok" THEN Throw(call(access))
        ELSE
            /\ documentVersions' = DeletePositions(inserted, toDelete)
            /\ Record([call("ok") EXCEPT
                          !.note = IF toDelete = {} THEN "-" ELSE "evicted"])
            /\ UNCHANGED <<documents, documentCollaborators, folders, nextFolderId, userPresence,
                           nextDocId, now>>

\* autoCreateVersion without the MIN_VERSION_INTERVAL gate
autoCreateVersionUngated(u, d) ==
    LET call(code) == Call("autoCreateVersion", u, d, "-", 0, code)
        access == versionsCheckDocumentAccess(d, u)
        versions == PositionsOf(documentVersions, d)
        inserted == Append(documentVersions, Version(d, u))
        toDelete == IF Cardinality(versions) >= MAX_VERSIONS
                    THEN OldestPositions(documentVersions, versions, 1)
                    ELSE {}
    IN  IF u = Anon THEN Throw(call("UNAUTHORIZED"))
        ELSE IF access # "ok" THEN Throw(call(access))
        ELSE
            /\ documentVersions' = DeletePositions(inserted, toDelete)
            /\ Record(call("true"))
            /\ UNCHANGED <<documents, documentCollaborators, folders, nextFolderId, userPresence,
                           nextDocId, now>>

\* autoCreateVersion whose gate asks for more than MIN_VERSION_INTERVAL
autoCreateVersionStrictGate(u, d) ==
    LET call(code) == Call("autoCreateVersion", u, d, "-", 0, code)
        access == versionsCheckDocumentAccess(d, u)
        versions == PositionsOf(documentVersions, d)
        due == \/ versions = {}
               \/ now - documentVersions[LatestPosition(documentVersions, versions)].createdAt
                    > MIN_VERSION_INTERVAL
        inserted == Append(documentVersions, Version(d, u))
        toDelete == IF Cardinality(versions) >= MAX_VERSIONS
                    THEN OldestPositions(documentVersions, versions, 1)
                    ELSE {}
    IN  IF u = Anon THEN Throw(call("UNAUTHORIZED"))
        ELSE IF access # "ok" THEN Throw(call(access))
        ELSE IF ~due THEN Throw(call("false"))
        ELSE
            /\ documentVersions' = DeletePositions(inserted, toDelete)
            /\ Record(call("true"))
            /\ UNCHANGED <<documents, documentCollaborators, folders, nextFolderId, userPresence,
                           nextDocId, now>>

\* the code is the boolean the handler returns, "true" or "false"; a call that
\* returns false writes nothing
autoCreateVersion(u, d) ==
    LET call(code) == Call("autoCreateVersion", u, d, "-", 0, code)
        access == versionsCheckDocumentAccess(d, u)
        versions == PositionsOf(documentVersions, d)
        due == \/ versions = {}
               \/ now - documentVersions[LatestPosition(documentVersions, versions)].createdAt
                    >= MIN_VERSION_INTERVAL
        inserted == Append(documentVersions, Version(d, u))
        toDelete == IF Cardinality(versions) >= MAX_VERSIONS
                    THEN OldestPositions(documentVersions, versions, 1)
                    ELSE {}
    IN  IF u = Anon THEN Throw(call("UNAUTHORIZED"))
        ELSE IF access # "ok" THEN Throw(call(access))
        ELSE IF ~due THEN Throw(call("false"))
        ELSE
            /\ documentVersions' = DeletePositions(inserted, toDelete)
            /\ Record(call("true"))
            /\ UNCHANGED <<documents, documentCollaborators, folders, nextFolderId, userPresence,
                           nextDocId, now>>

\* autoCreateVersion with no atomic guard (spec 4.3, 9): the handler reads
\* and tests the time gate in one step (versions.ts:93-105) and inserts in a
\* later one (106-119), and other calls run in between
Slots == 1 .. MaxInflight

Idle == [user |-> "-", doc |-> 0, at |-> 0, document |-> <<>>, versions |-> <<>>]

\* the reads of the handler: identity, access, the versions of the document,
\* Date.now() and the gate. A call that throws or fails the gate ends here; a
\* call that passes keeps what it read: the document row, the versions, now
autoCreateVersionRead(slot, u, d) ==
    LET call(code) == Call("autoCreateVersion", u, d, "-", 0, code)
        access == versionsCheckDocumentAccess(d, u)
        versions == PositionsOf(documentVersions, d)
        due == \/ versions = {}
               \/ now - documentVersions[LatestPosition(documentVersions, versions)].createdAt
                    >= MIN_VERSION_INTERVAL
    IN  /\ inflight[slot] = Idle
        /\ IF u = Anon THEN Throw(call("UNAUTHORIZED"))
           ELSE IF access # "ok" THEN Throw(call(access))
           ELSE IF ~due THEN Throw(call("false"))
           ELSE
               /\ inflight' = [inflight EXCEPT ![slot] =
                                 [user |-> u, doc |-> d, at |-> now,
                                  document |-> <<documents[d]>>,
                                  versions |-> VersionsOf(d)]]
               /\ UNCHANGED <<tables, now, last, beforeDelete, autoLog>>

\* the version the handler inserts: content and title of the document row it
\* read, createdAt the Date.now() it took before the gate
AutoVersion(txn) ==
    [documentId |-> txn.doc, content |-> txn.document[1].content,
     title |-> txn.document[1].title, createdAt |-> txn.at, createdBy |-> txn.user]

\* the writes of the handler: the insert, and the eviction of the oldest of
\* the versions it read when it read MAX_VERSIONS or more. The rows carry no
\* _id here: the oldest row read is found by its fields, and a row deleted in
\* between is not there to delete
AutoInsert(txn) ==
    LET inserted == Append(documentVersions, AutoVersion(txn))
        read == txn.versions
        oldest == read[CHOOSE i \in 1 .. Len(read) :
                         AscendingIndex(read, 1 .. Len(read), i) = 0]
        stored == {i \in 1 .. Len(documentVersions) : documentVersions[i] = oldest}
        toDelete == IF Len(read) >= MAX_VERSIONS /\ stored # {}
                    THEN {CHOOSE i \in stored : \A j \in stored : i <= j}
                    ELSE {}
    IN  DeletePositions(inserted, toDelete)

\* the versions of the document are no longer the ones the call read
Overlapped(txn) == VersionsOf(txn.doc) # txn.versions

\* the write step with an atomic guard: the gate is tested again on the
\* versions stored now, and a call that fails it returns false
autoCreateVersionWriteGuarded(slot) ==
    LET txn == inflight[slot]
        versions == PositionsOf(documentVersions, txn.doc)
        due == \/ versions = {}
               \/ txn.at - documentVersions[LatestPosition(documentVersions, versions)].createdAt
                    >= MIN_VERSION_INTERVAL
        call(code) == [Call("autoCreateVersion", txn.user, txn.doc, "-", 0, code)
                         EXCEPT !.note = IF Overlapped(txn) THEN "overlapped" ELSE "-"]
    IN  /\ txn # Idle
        /\ documentVersions' = IF due THEN AutoInsert(txn) ELSE documentVersions
        /\ inflight' = [inflight EXCEPT ![slot] = Idle]
        /\ Log(call(IF due THEN "true" ELSE "false"))
        /\ UNCHANGED <<documents, documentCollaborators, folders, nextFolderId, userPresence,
                       nextDocId, now>>

\* note is "overlapped" when the versions of the document changed between the
\* reads of the call and its writes
autoCreateVersionWrite(slot) ==
    LET txn == inflight[slot]
        call(code) == [Call("autoCreateVersion", txn.user, txn.doc, "-", 0, code)
                         EXCEPT !.note = IF Overlapped(txn) THEN "overlapped" ELSE "-"]
    IN  /\ txn # Idle
        /\ documentVersions' = AutoInsert(txn)
        /\ inflight' = [inflight EXCEPT ![slot] = Idle]
        /\ Log(call("true"))
        /\ UNCHANGED <<documents, documentCollaborators, folders, nextFolderId, userPresence,
                       nextDocId, now>>

\* versionId is the position of the version in the table
\* listVersions: the positions of the versions sorted.slice(0, limit) returns,
\* sorted newest first; limit is 20 when left out, and a negative limit counts
\* from the end of the array
listVersions(u, d, limit) ==
    LET P == PositionsOf(documentVersions, d)
        end == IF limit >= 0 THEN limit
               ELSE IF Cardinality(P) + limit > 0 THEN Cardinality(P) + limit
               ELSE 0
    IN  IF u = Anon THEN {}
        ELSE IF ~Exists(d) \/ documents[d].isDeleted THEN {}
        ELSE IF UniqueThrows(d, u) THEN NotUnique
        ELSE IF documents[d].ownerId # u /\ ~HasGrant(d, u) THEN {}
        ELSE {i \in P : DescendingIndex(documentVersions, P, i) < end}

\* getVersion: {versionId} when the version is returned, {} when null is
getVersion(u, versionId) ==
    LET found == versionId \in 1 .. Len(documentVersions)
        d == IF found THEN documentVersions[versionId].documentId ELSE 0
    IN  IF u = Anon \/ ~found THEN {}
        ELSE IF ~Exists(d) \/ documents[d].isDeleted THEN {}
        ELSE IF UniqueThrows(d, u) THEN NotUnique
        ELSE IF documents[d].ownerId # u /\ ~HasGrant(d, u) THEN {}
        ELSE {versionId}

\* restoreVersion that also makes the caller the owner of the document
restoreVersionTakesOwnership(u, versionId) ==
    LET found == versionId \in 1 .. Len(documentVersions)
        version == documentVersions[versionId]
        d == IF found THEN version.documentId ELSE 0
        call(code) == Call("restoreVersion", u, d, "-", versionId, code)
        access == versionsCheckDocumentAccess(d, u)
    IN  IF u = Anon THEN Throw(call("UNAUTHORIZED"))
        ELSE IF ~found THEN Throw(call("NOT_FOUND"))
        ELSE IF access # "ok" THEN Throw(call(access))
        ELSE IF /\ documents[d].ownerId # u
                /\ (~HasGrant(d, u) \/ GrantRole(d, u) = "viewer")
             THEN Throw(call("FORBIDDEN"))
        ELSE
            /\ documentVersions' = Append(documentVersions, Version(d, u))
            /\ documents' = [documents EXCEPT ![d].content = version.content,
                                              ![d].title = version.title,
                                              ![d].updatedAt = now,
                                              ![d].ownerId = u]
            /\ Record(call("ok"))
            /\ UNCHANGED <<documentCollaborators, folders, nextFolderId, userPresence, nextDocId, now>>

\* restoreVersion that takes the backup after it has patched the document
restoreVersionBackupAfterPatch(u, versionId) ==
    LET found == versionId \in 1 .. Len(documentVersions)
        version == documentVersions[versionId]
        d == IF found THEN version.documentId ELSE 0
        call(code) == Call("restoreVersion", u, d, "-", versionId, code)
        access == versionsCheckDocumentAccess(d, u)
    IN  IF u = Anon THEN Throw(call("UNAUTHORIZED"))
        ELSE IF ~found THEN Throw(call("NOT_FOUND"))
        ELSE IF access # "ok" THEN Throw(call(access))
        ELSE IF /\ documents[d].ownerId # u
                /\ (~HasGrant(d, u) \/ GrantRole(d, u) = "viewer")
             THEN Throw(call("FORBIDDEN"))
        ELSE
            /\ documentVersions' =
                 Append(documentVersions,
                        [Version(d, u) EXCEPT !.content = version.content,
                                              !.title = version.title])
            /\ documents' = [documents EXCEPT ![d].content = version.content,
                                              ![d].title = version.title,
                                              ![d].updatedAt = now]
            /\ Record(call("ok"))
            /\ UNCHANGED <<documentCollaborators, folders, nextFolderId, userPresence, nextDocId, now>>

\* restoreVersion whose backup takes the title of the version restored
restoreVersionBackupTitleOfVersion(u, versionId) ==
    LET found == versionId \in 1 .. Len(documentVersions)
        version == documentVersions[versionId]
        d == IF found THEN version.documentId ELSE 0
        call(code) == Call("restoreVersion", u, d, "-", versionId, code)
        access == versionsCheckDocumentAccess(d, u)
    IN  IF u = Anon THEN Throw(call("UNAUTHORIZED"))
        ELSE IF ~found THEN Throw(call("NOT_FOUND"))
        ELSE IF access # "ok" THEN Throw(call(access))
        ELSE IF /\ documents[d].ownerId # u
                /\ UniqueThrows(d, u)
             THEN Throw(call("NOT_UNIQUE"))
        ELSE IF /\ documents[d].ownerId # u
                /\ (~HasGrant(d, u) \/ GrantRole(d, u) = "viewer")
             THEN Throw(call("FORBIDDEN"))
        ELSE
            /\ documentVersions' =
                 Append(documentVersions, [Version(d, u) EXCEPT !.title = version.title])
            /\ documents' = [documents EXCEPT ![d].content = version.content,
                                              ![d].title = version.title,
                                              ![d].updatedAt = now]
            /\ Record([call("ok") EXCEPT !.out = documents[d].content,
                                         !.note = documents[d].title])
            /\ UNCHANGED <<documentCollaborators, folders, nextFolderId, userPresence, nextDocId, now>>

\* restoreVersion that inserts the backup version before it tests the role:
\* the backup is written when the call of a viewer throws
restoreVersionBackupBeforeRoleCheck(u, versionId) ==
    LET found == versionId \in 1 .. Len(documentVersions)
        version == documentVersions[versionId]
        d == IF found THEN version.documentId ELSE 0
        call(code) == Call("restoreVersion", u, d, "-", versionId, code)
        access == versionsCheckDocumentAccess(d, u)
    IN  IF u = Anon THEN Throw(call("UNAUTHORIZED"))
        ELSE IF ~found THEN Throw(call("NOT_FOUND"))
        ELSE IF access # "ok" THEN Throw(call(access))
        ELSE IF /\ documents[d].ownerId # u
                /\ UniqueThrows(d, u)
             THEN Throw(call("NOT_UNIQUE"))
        ELSE IF /\ documents[d].ownerId # u
                /\ (~HasGrant(d, u) \/ GrantRole(d, u) = "viewer")
             THEN /\ documentVersions' = Append(documentVersions, Version(d, u))
                  /\ Record(call("FORBIDDEN"))
                  /\ UNCHANGED <<documents, documentCollaborators, folders, nextFolderId,
                                 userPresence, nextDocId, now>>
        ELSE
            /\ documentVersions' = Append(documentVersions, Version(d, u))
            /\ documents' = [documents EXCEPT ![d].content = version.content,
                                              ![d].title = version.title,
                                              ![d].updatedAt = now]
            /\ Record([call("ok") EXCEPT !.out = documents[d].content,
                                         !.note = documents[d].title])
            /\ UNCHANGED <<documentCollaborators, folders, nextFolderId, userPresence, nextDocId, now>>

\* out and note are the content and the title the call replaced
restoreVersion(u, versionId) ==
    LET found == versionId \in 1 .. Len(documentVersions)
        version == documentVersions[versionId]
        d == IF found THEN version.documentId ELSE 0
        call(code) == Call("restoreVersion", u, d, "-", versionId, code)
        access == versionsCheckDocumentAccess(d, u)
    IN  IF u = Anon THEN Throw(call("UNAUTHORIZED"))
        ELSE IF ~found THEN Throw(call("NOT_FOUND"))
        ELSE IF access # "ok" THEN Throw(call(access))
        ELSE IF /\ documents[d].ownerId # u
                /\ UniqueThrows(d, u)
             THEN Throw(call("NOT_UNIQUE"))
        ELSE IF /\ documents[d].ownerId # u
                /\ (~HasGrant(d, u) \/ GrantRole(d, u) = "viewer")
             THEN Throw(call("FORBIDDEN"))
        ELSE
            /\ documentVersions' = Append(documentVersions, Version(d, u))
            /\ documents' = [documents EXCEPT ![d].content = version.content,
                                              ![d].title = version.title,
                                              ![d].updatedAt = now]
            /\ Record([call("ok") EXCEPT !.out = documents[d].content,
                                         !.note = documents[d].title])
            /\ UNCHANGED <<documentCollaborators, folders, nextFolderId, userPresence, nextDocId, now>>

deleteVersion(u, versionId) ==
    LET found == versionId \in 1 .. Len(documentVersions)
        d == IF found THEN documentVersions[versionId].documentId ELSE 0
        call(code) == Call("deleteVersion", u, d, "-", versionId, code)
    IN  IF u = Anon THEN Throw(call("UNAUTHORIZED"))
        ELSE IF ~found THEN Throw(call("NOT_FOUND"))
        ELSE IF ~Exists(d) \/ documents[d].ownerId # u THEN Throw(call("FORBIDDEN"))
        ELSE
            /\ documentVersions' = DeletePositions(documentVersions, {versionId})
            /\ Record(call("ok"))
            /\ UNCHANGED <<documents, documentCollaborators, folders, nextFolderId, userPresence,
                           nextDocId, now>>

\* the documents that have versions stored
VersionedDocs(t) == {t[i].documentId : i \in 1 .. Len(t)}

\* cleanupOldVersions that deletes the newest surplus
cleanupOldVersionsNewest ==
    LET toDelete ==
            UNION {LET P == PositionsOf(documentVersions, d)
                   IN  IF Cardinality(P) > MAX_VERSIONS
                       THEN NewestPositions(documentVersions, P,
                                            Cardinality(P) - MAX_VERSIONS)
                       ELSE {} : d \in VersionedDocs(documentVersions)}
    IN  /\ documentVersions' = DeletePositions(documentVersions, toDelete)
        /\ Record([Call("cleanupOldVersions", "-", 0, "-", 0, "ok")
                     EXCEPT !.out = ToString(Cardinality(toDelete))])
        /\ UNCHANGED <<documents, documentCollaborators, folders, nextFolderId, userPresence,
                       nextDocId, now>>

\* cleanupOldVersions (internal, no caller): for every document with more than
\* MAX_VERSIONS versions, the oldest surplus is deleted; out is the number of
\* versions deleted
cleanupOldVersions ==
    LET toDelete ==
            UNION {LET P == PositionsOf(documentVersions, d)
                   IN  IF Cardinality(P) > MAX_VERSIONS
                       THEN OldestPositions(documentVersions, P,
                                            Cardinality(P) - MAX_VERSIONS)
                       ELSE {} : d \in VersionedDocs(documentVersions)}
    IN  /\ documentVersions' = DeletePositions(documentVersions, toDelete)
        /\ Record([Call("cleanupOldVersions", "-", 0, "-", 0, "ok")
                     EXCEPT !.out = ToString(Cardinality(toDelete))])
        /\ UNCHANGED <<documents, documentCollaborators, folders, nextFolderId, userPresence,
                       nextDocId, now>>

----------------------------------------------------------------------------
(* exports.ts: the content tree and its emitters *)

\* the attrs of a node or mark whose JSON carries none
NoAttrs == [name \in {} |-> 0]

\* a TiptapNode as JSON.parse gives it; content and marks left out are empty,
\* text left out is "", attrs holds the attributes the JSON carries
Node(type, content) ==
    [type |-> type, content |-> content, text |-> "", marks |-> <<>>, attrs |-> NoAttrs]

Text(text, marks) ==
    [type |-> "text", content |-> <<>>, text |-> text, marks |-> marks, attrs |-> NoAttrs]

Heading(level, content) ==
    [type |-> "heading", content |-> content, text |-> "", marks |-> <<>>,
     attrs |-> [level |-> level]]

TaskItem(checked, content) ==
    [type |-> "taskItem", content |-> content, text |-> "", marks |-> <<>>,
     attrs |-> [checked |-> checked]]

CodeBlock(language, content) ==
    [type |-> "codeBlock", content |-> content, text |-> "", marks |-> <<>>,
     attrs |-> [language |-> language]]

Mark(type) == [type |-> type, attrs |-> NoAttrs]

Link(href) == [type |-> "link", attrs |-> [href |-> href]]

\* a null in a content array
Null == [null |-> TRUE]

\* value === null, for a value of any type
IsNull(value) == ToString(value) = ToString(Null)

\* attrs?.name ?? default: the default stands in for an attribute that is
\* left out or null
Attr(attrs, name, default) ==
    IF name \in DOMAIN attrs /\ ~IsNull(attrs[name]) THEN attrs[name] ELSE default

\* two characters of the output that a TLA+ string cannot hold, written as
\* their JavaScript escapes: the backquote and the bullet U+2022
Backquote == "\\x60"
Bullet == "\\u2022"

\* stored contents of the model: five content trees, and a JSON text cut short
ExampleContent ==
    "{\"type\":\"doc\",\"content\":[{\"type\":\"paragraph\",\"content\":[{\"type\":\"text\",\"text\":\"hi\",\"marks\":[{\"type\":\"bold\"}]}]}]}"

RichContent ==
    "{\"type\":\"doc\",\"content\":[{\"type\":\"heading\",\"attrs\":{\"level\":2},\"content\":[{\"type\":\"text\",\"text\":\"T\"}]},{\"type\":\"paragraph\",\"content\":[{\"type\":\"text\",\"text\":\"a<b\",\"marks\":[{\"type\":\"italic\"},{\"type\":\"underline\"}]},{\"type\":\"hardBreak\"},{\"type\":\"text\",\"text\":\"hi\"}]},{\"type\":\"horizontalRule\"}]}"

QuoteContent ==
    "{\"type\":\"doc\",\"content\":[{\"type\":\"blockquote\",\"content\":[{\"type\":\"paragraph\",\"content\":[{\"type\":\"text\",\"text\":\"hi\"},{\"type\":\"hardBreak\"},{\"type\":\"text\",\"text\":\"T\"}]}]},{\"type\":\"heading\",\"content\":[{\"type\":\"text\",\"text\":\"T\"}]},{\"type\":\"orderedList\"},null]}"

ListContent ==
    "{\"type\":\"doc\",\"content\":[{\"type\":\"bulletList\",\"content\":[{\"type\":\"listItem\",\"content\":[{\"type\":\"paragraph\",\"content\":[{\"type\":\"text\",\"text\":\"a\"}]}]},{\"type\":\"listItem\",\"content\":[{\"type\":\"paragraph\",\"content\":[{\"type\":\"text\",\"text\":\"b\",\"marks\":[{\"type\":\"code\"}]}]}]}]},{\"type\":\"codeBlock\",\"attrs\":{\"language\":\"js\"},\"content\":[{\"type\":\"text\",\"text\":\"a<b\"}]},{\"type\":\"heading\",\"attrs\":{\"level\":null},\"content\":[{\"type\":\"text\",\"text\":\"T\"}]}]}"

BrokenContent == "{\"type\":\"doc\",\"content\":["

ExportContents ==
    {DefaultContent, ExampleContent, RichContent, QuoteContent, ListContent, BrokenContent}

SyntaxError == [type |-> "SyntaxError"]

\* JSON.parse on the stored contents of the model
JSONParse(jsonContent) ==
    CASE jsonContent = DefaultContent -> Node("doc", <<>>)
      [] jsonContent = ExampleContent ->
           Node("doc", <<Node("paragraph", <<Text("hi", <<Mark("bold")>>)>>)>>)
      [] jsonContent = RichContent ->
           Node("doc",
                <<Heading(2, <<Text("T", <<>>)>>),
                  Node("paragraph",
                       <<Text("a<b", <<Mark("italic"), Mark("underline")>>),
                         Node("hardBreak", <<>>),
                         Text("hi", <<>>)>>),
                  Node("horizontalRule", <<>>)>>)
      [] jsonContent = QuoteContent ->
           Node("doc",
                <<Node("blockquote",
                       <<Node("paragraph",
                              <<Text("hi", <<>>), Node("hardBreak", <<>>),
                                Text("T", <<>>)>>)>>),
                  Node("heading", <<Text("T", <<>>)>>),
                  Node("orderedList", <<>>),
                  Null>>)
      [] jsonContent = ListContent ->
           Node("doc",
                <<Node("bulletList",
                       <<Node("listItem", <<Node("paragraph", <<Text("a", <<>>)>>)>>),
                         Node("listItem",
                              <<Node("paragraph", <<Text("b", <<Mark("code")>>)>>)>>)>>),
                  CodeBlock("js", <<Text("a<b", <<>>)>>),
                  Heading(Null, <<Text("T", <<>>)>>)>>)
      [] jsonContent \in {BrokenContent, "c0", "c1"} -> SyntaxError

\* Array.prototype.join
RECURSIVE Join(_, _)
Join(strings, separator) ==
    IF strings = <<>> THEN ""
    ELSE IF Len(strings) = 1 THEN strings[1]
    ELSE strings[1] \o separator \o Join(Tail(strings), separator)

\* String.prototype.repeat
RECURSIVE Repeat(_, _)
Repeat(string, count) == IF count = 0 THEN "" ELSE string \o Repeat(string, count - 1)

\* String.prototype.split on a separator of one character
RECURSIVE Split(_, _)
Split(string, separator) ==
    IF string = "" THEN <<"">>
    ELSE IF Head(string) = separator THEN <<"">> \o Split(Tail(string), separator)
    ELSE LET rest == Split(Tail(string), separator)
         IN  <<Head(string) \o rest[1]>> \o Tail(rest)

\* escapeHTML: the five replacements, character by character
RECURSIVE escapeHTML(_)
escapeHTML(text) ==
    IF text = "" THEN ""
    ELSE LET c == Head(text)
             escaped == CASE c = "&" -> "&amp;"
                          [] c = "<" -> "&lt;"
                          [] c = ">" -> "&gt;"
                          [] c = "\"" -> "&quot;"
                          [] c = "'" -> "&#039;"
                          [] OTHER -> c
         IN  escaped \o escapeHTML(Tail(text))

\* the loop over node.marks of nodeToMarkdown with bold written as __text__
RECURSIVE MarkdownMarksUnderscore(_, _)
MarkdownMarksUnderscore(text, marks) ==
    IF marks = <<>> THEN text
    ELSE LET mark == Head(marks)
             marked == CASE mark.type = "bold" -> "__" \o text \o "__"
                         [] mark.type = "italic" -> "*" \o text \o "*"
                         [] mark.type = "strike" -> "~~" \o text \o "~~"
                         [] mark.type = "link" ->
                              "[" \o text \o "](" \o Attr(mark.attrs, "href", "") \o ")"
                         [] mark.type = "code" -> Backquote \o text \o Backquote
                         [] mark.type \notin {"bold", "italic", "strike", "link", "code"} -> text
         IN  MarkdownMarksUnderscore(marked, Tail(marks))

\* the loop over node.marks of the "text" case of nodeToMarkdown
RECURSIVE MarkdownMarks(_, _)
MarkdownMarks(text, marks) ==
    IF marks = <<>> THEN text
    ELSE LET mark == Head(marks)
             marked == CASE mark.type = "bold" -> "**" \o text \o "**"
                         [] mark.type = "italic" -> "*" \o text \o "*"
                         [] mark.type = "strike" -> "~~" \o text \o "~~"
                         [] mark.type = "link" ->
                              "[" \o text \o "](" \o Attr(mark.attrs, "href", "") \o ")"
                         [] mark.type = "code" -> Backquote \o text \o Backquote
                         [] mark.type \notin {"bold", "italic", "strike", "link", "code"} -> text
         IN  MarkdownMarks(marked, Tail(marks))

\* content.replace(/^- /, number \o ". ") of the orderedList case
ReplaceListMarker(content, number) ==
    IF Len(content) >= 2 /\ SubSeq(content, 1, 2) = "- "
    THEN ToString(number) \o ". " \o SubSeq(content, 3, Len(content))
    ELSE content

\* nodeToMarkdown; a call that leaves depth out has depth 0
RECURSIVE nodeToMarkdown(_, _)
nodeToMarkdown(node, depth) ==
    IF node = Null THEN ""
    ELSE
    LET children(d) == [i \in 1 .. Len(node.content) |-> nodeToMarkdown(node.content[i], d)]
        content == Join(children(0), "")
    IN  CASE node.type = "doc" -> Join(children(0), "\n\n")
          [] node.type = "paragraph" -> content
          [] node.type = "heading" ->
               Repeat("#", Attr(node.attrs, "level", 1)) \o " " \o content
          [] node.type = "bulletList" -> Join(children(depth), "\n")
          [] node.type = "orderedList" ->
               Join([i \in 1 .. Len(node.content) |->
                       ReplaceListMarker(children(depth)[i], i)], "\n")
          [] node.type = "listItem" -> Repeat("  ", depth) \o "- " \o content
          [] node.type = "taskList" -> Join(children(depth), "\n")
          [] node.type = "taskItem" ->
               Repeat("  ", depth) \o "- ["
                 \o (IF Attr(node.attrs, "checked", FALSE) THEN "x" ELSE " ")
                 \o "] " \o content
          [] node.type = "codeBlock" ->
               Repeat(Backquote, 3) \o Attr(node.attrs, "language", "") \o "\n"
                 \o content \o "\n" \o Repeat(Backquote, 3)
          [] node.type = "blockquote" ->
               LET lines == Split(content, "\n")
               IN  Join([i \in 1 .. Len(lines) |-> "> " \o lines[i]], "\n")
          [] node.type = "horizontalRule" -> "---"
          [] node.type = "hardBreak" -> "\n"
          [] node.type = "text" -> MarkdownMarks(node.text, node.marks)
          [] node.type \notin {"doc", "paragraph", "heading", "bulletList", "orderedList",
                               "listItem", "taskList", "taskItem", "codeBlock",
                               "blockquote", "horizontalRule", "hardBreak", "text"} ->
               content

\* the result of tiptapToMarkdown, or SyntaxError when JSON.parse throws
tiptapToMarkdown(jsonContent) ==
    LET doc == JSONParse(jsonContent)
    IN  IF doc = SyntaxError THEN SyntaxError
        ELSE [type |-> "string", value |-> nodeToMarkdown(doc, 0)]

\* the loop over node.marks of the "text" case of nodeToHTML
RECURSIVE HTMLMarks(_, _)
HTMLMarks(text, marks) ==
    IF marks = <<>> THEN text
    ELSE LET mark == Head(marks)
             marked == CASE mark.type = "bold" -> "<strong>" \o text \o "</strong>"
                         [] mark.type = "italic" -> "<em>" \o text \o "</em>"
                         [] mark.type = "strike" -> "<s>" \o text \o "</s>"
                         [] mark.type = "code" -> "<code>" \o text \o "</code>"
                         [] mark.type = "underline" -> "<u>" \o text \o "</u>"
                         [] mark.type = "link" ->
                              "<a href=\"" \o escapeHTML(Attr(mark.attrs, "href", ""))
                                \o "\">" \o text \o "</a>"
                         [] OTHER -> text
         IN  HTMLMarks(marked, Tail(marks))

RECURSIVE nodeToHTML(_)
nodeToHTML(node) ==
    IF node = Null THEN ""
    ELSE
    LET inner == Join([i \in 1 .. Len(node.content) |-> nodeToHTML(node.content[i])], "")
        level == ToString(Attr(node.attrs, "level", 1))
    IN  CASE node.type = "doc" -> inner
          [] node.type = "paragraph" -> "<p>" \o inner \o "</p>"
          [] node.type = "heading" -> "<h" \o level \o ">" \o inner \o "</h" \o level \o ">"
          [] node.type = "bulletList" -> "<ul>" \o inner \o "</ul>"
          [] node.type = "orderedList" -> "<ol>" \o inner \o "</ol>"
          [] node.type = "listItem" -> "<li>" \o inner \o "</li>"
          [] node.type = "taskList" -> "<ul class=\"task-list\">" \o inner \o "</ul>"
          [] node.type = "taskItem" ->
               "<li><input type=\"checkbox\" "
                 \o (IF Attr(node.attrs, "checked", FALSE) THEN "checked" ELSE "")
                 \o " disabled> " \o inner \o "</li>"
          [] node.type = "codeBlock" ->
               "<pre><code class=\"language-" \o Attr(node.attrs, "language", "") \o "\">"
                 \o escapeHTML(inner) \o "</code></pre>"
          [] node.type = "blockquote" -> "<blockquote>" \o inner \o "</blockquote>"
          [] node.type = "horizontalRule" -> "<hr>"
          [] node.type = "hardBreak" -> "<br>"
          [] node.type = "text" -> HTMLMarks(escapeHTML(node.text), node.marks)
          [] OTHER -> inner

\* the document shell of tiptapToHTML
HTMLShell(body) ==
    "<!DOCTYPE html>\n<html>\n<head>\n<meta charset=\"UTF-8\">\n<style>\n"
    \o "body { font-family: system-ui, -apple-system, sans-serif; line-height: 1.6; max-width: 800px; margin: 0 auto; padding: 20px; }\n"
    \o "h1, h2, h3, h4, h5, h6 { margin-top: 1.5em; margin-bottom: 0.5em; }\n"
    \o "p { margin: 1em 0; }\n"
    \o "ul, ol { padding-left: 2em; }\n"
    \o "blockquote { border-left: 3px solid #ccc; margin-left: 0; padding-left: 1em; color: #666; }\n"
    \o "code { background: #f4f4f4; padding: 2px 6px; border-radius: 3px; }\n"
    \o "pre { background: #f4f4f4; padding: 1em; border-radius: 5px; overflow-x: auto; }\n"
    \o "pre code { background: none; padding: 0; }\n"
    \o "a { color: #0066cc; }\n"
    \o "hr { border: none; border-top: 1px solid #ccc; margin: 2em 0; }\n"
    \o "</style>\n</head>\n<body>\n" \o body \o "\n</body>\n</html>"

tiptapToHTML(jsonContent, includeStyles) ==
    LET doc == JSONParse(jsonContent)
    IN  IF doc = SyntaxError THEN SyntaxError
        ELSE [type |-> "string",
              value |-> IF includeStyles THEN HTMLShell(nodeToHTML(doc))
                        ELSE nodeToHTML(doc)]

\* nodeToText
RECURSIVE nodeToText(_)
nodeToText(node) ==
    IF node = Null THEN ""
    ELSE
    LET children == [i \in 1 .. Len(node.content) |-> nodeToText(node.content[i])]
    IN  CASE node.type = "doc" -> Join(children, "\n\n")
          [] node.type \in {"paragraph", "heading"} -> Join(children, "")
          [] node.type \in {"bulletList", "orderedList", "taskList"} -> Join(children, "\n")
          [] node.type \in {"listItem", "taskItem"} -> Bullet \o " " \o Join(children, "")
          [] node.type \in {"codeBlock", "blockquote"} -> Join(children, "")
          [] node.type = "horizontalRule" -> "---"
          [] node.type = "hardBreak" -> "\n"
          [] node.type = "text" -> node.text
          [] node.type \notin {"doc", "paragraph", "heading", "bulletList", "orderedList",
                               "taskList", "listItem", "taskItem", "codeBlock",
                               "blockquote", "horizontalRule", "hardBreak", "text"} ->
               Join(children, "")

tiptapToText(jsonContent) ==
    LET doc == JSONParse(jsonContent)
    IN  IF doc = SyntaxError THEN SyntaxError
        ELSE [type |-> "string", value |-> nodeToText(doc)]

\* an export action: one getDocument query, whose error leaves the action as
\* it was thrown, then the converter; it writes no table. A SyntaxError of
\* JSON.parse is caught nowhere and leaves the action as it was thrown; out is
\* the content field of the result
Export(op, u, d, note, converted) ==
    LET call(code, out) ==
            [Call(op, u, d, "-", 0, code) EXCEPT !.note = note, !.out = out]
    IN  IF getDocumentThrows(u, d) THEN Throw(call("NOT_UNIQUE", "-"))
        ELSE IF getDocument(u, d) = {} THEN Throw(call("NOT_FOUND", "-"))
        ELSE IF converted = SyntaxError THEN Throw(call("SyntaxError", "-"))
        ELSE Throw(call("ok", converted.value))

exportToMarkdown(u, d) ==
    Export("exportToMarkdown", u, d, "-",
           IF Exists(d) THEN tiptapToMarkdown(documents[d].content) ELSE SyntaxError)

\* args.includeStyles is optional and read as TRUE when left out
exportToHTML(u, d, args) ==
    LET styles == IF "includeStyles" \in DOMAIN args THEN args.includeStyles ELSE TRUE
    IN  Export("exportToHTML", u, d, IF styles THEN "styles" ELSE "body",
               IF Exists(d) THEN tiptapToHTML(documents[d].content, styles)
               ELSE SyntaxError)

exportToText(u, d) ==
    Export("exportToText", u, d, "-",
           IF Exists(d) THEN tiptapToText(documents[d].content) ELSE SyntaxError)

\* exportToJSON returns the stored content as it is, unparsed
exportToJSON(u, d) ==
    Export("exportToJSON", u, d, "-",
           IF Exists(d) THEN [type |-> "string", value |-> documents[d].content]
           ELSE SyntaxError)

----------------------------------------------------------------------------
(* folders (src/unnamed/part_005) *)

\* parentId is NoFolder when left out
createFolder(u, parentId) ==
    LET id == nextFolderId
        call(code) == [Call("createFolder", u, 0, "-", 0, code) EXCEPT !.folder = id]
    IN  IF u = Anon THEN Throw(call("UNAUTHORIZED"))
        ELSE IF /\ parentId # NoFolder
                /\ \/ parentId \notin DOMAIN folders
                   \/ folders[parentId].ownerId # u
             THEN Throw(call("NOT_FOUND"))
        ELSE
            /\ folders' = folders @@ (id :> [ownerId |-> u, parentId |-> parentId])
            /\ nextFolderId' = nextFolderId + 1
            /\ Record(call("ok"))
            /\ UNCHANGED <<documents, documentCollaborators, documentVersions,
                           userPresence, nextDocId, now>>

\* the while loop of moveFolder: folderId is met on the walk from
\* currentParent up the parentId references
RECURSIVE OnParentChain(_, _)
OnParentChain(currentParent, folderId) ==
    IF currentParent = NoFolder THEN FALSE
    ELSE IF currentParent = folderId THEN TRUE
    ELSE IF currentParent \notin DOMAIN folders THEN FALSE
    ELSE OnParentChain(folders[currentParent].parentId, folderId)

\* moveFolder that checks only that the folder is not moved into itself
moveFolderSelfCheckOnly(u, folderId, newParentId) ==
    LET call(code) == [Call("moveFolder", u, 0, "-", 0, code)
                          EXCEPT !.folder = folderId, !.note = ToString(newParentId)]
    IN  IF u = Anon THEN Throw(call("UNAUTHORIZED"))
        ELSE IF folderId \notin DOMAIN folders THEN Throw(call("NOT_FOUND"))
        ELSE IF folders[folderId].ownerId # u THEN Throw(call("FORBIDDEN"))
        ELSE IF newParentId = folderId THEN Throw(call("VALIDATION_ERROR"))
        ELSE
            /\ folders' = [folders EXCEPT ![folderId].parentId = newParentId]
            /\ Record(call("ok"))
            /\ UNCHANGED <<documents, documentCollaborators, documentVersions,
                           userPresence, nextDocId, nextFolderId, now>>

\* newParentId is NoFolder when left out; note is the newParentId given
moveFolder(u, folderId, newParentId) ==
    LET call(code) == [Call("moveFolder", u, 0, "-", 0, code)
                          EXCEPT !.folder = folderId, !.note = ToString(newParentId)]
    IN  IF u = Anon THEN Throw(call("UNAUTHORIZED"))
        ELSE IF folderId \notin DOMAIN folders THEN Throw(call("NOT_FOUND"))
        ELSE IF folders[folderId].ownerId # u THEN Throw(call("FORBIDDEN"))
        ELSE IF newParentId = folderId THEN Throw(call("VALIDATION_ERROR"))
        ELSE IF OnParentChain(newParentId, folderId) THEN Throw(call("VALIDATION_ERROR"))
        ELSE
            /\ folders' = [folders EXCEPT ![folderId].parentId = newParentId]
            /\ Record(call("ok"))
            /\ UNCHANGED <<documents, documentCollaborators, documentVersions,
                           userPresence, nextDocId, nextFolderId, now>>

\* the folders deleteFolderRecursively(folderId) deletes: the subfolders the
\* by_parent index gives, and theirs
Subfolders(folderId) ==
    {g \in DOMAIN folders : g # folderId /\ OnParentChain(folders[g].parentId, folderId)}

\* deleteContents is FALSE when left out
deleteFolder(u, folderId, deleteContents) ==
    LET call(code) == [Call("deleteFolder", u, 0, "-", 0, code)
                          EXCEPT !.folder = folderId,
                                 !.note = IF deleteContents THEN "contents" ELSE "-"]
        gone == IF deleteContents THEN Subfolders(folderId) \cup {folderId}
                ELSE {folderId}
    IN  IF u = Anon THEN Throw(call("UNAUTHORIZED"))
        ELSE IF folderId \notin DOMAIN folders THEN Throw(call("NOT_FOUND"))
        ELSE IF folders[folderId].ownerId # u THEN Throw(call("FORBIDDEN"))
        ELSE
            /\ documents' =
                 [d \in DOMAIN documents |->
                    IF documents[d].parentFolderId \notin gone THEN documents[d]
                    ELSE IF deleteContents
                    THEN [documents[d] EXCEPT !.isDeleted = TRUE, !.updatedAt = now]
                    ELSE [documents[d] EXCEPT
                            !.parentFolderId = folders[folderId].parentId,
                            !.updatedAt = now]]
            /\ folders' =
                 [g \in DOMAIN folders \ gone |->
                    IF ~deleteContents /\ folders[g].parentId = folderId
                    THEN [folders[g] EXCEPT !.parentId = folders[folderId].parentId]
                    ELSE folders[g]]
            /\ Record(call("ok"))
            /\ UNCHANGED <<documentCollaborators, documentVersions, userPresence,
                           nextDocId, nextFolderId, now>>

----------------------------------------------------------------------------
(* presence (src/unnamed/part_000) *)

\* the handler never reads the document; cursorPosition, selection, userName
\* and userColor are left out of the row
updatePresence(u, d) ==
    LET call(code) == Call("updatePresence", u, d, "-", 0, code)
    IN  IF u = Anon THEN Throw(call("UNAUTHORIZED"))
        ELSE
            /\ userPresence' =
                 [k \in DOMAIN userPresence \cup {<<d, u>>} |->
                    IF k = <<d, u>> THEN now ELSE userPresence[k]]
            /\ Record(call("ok"))
            /\ UNCHANGED <<documents, documentCollaborators, documentVersions, folders, nextFolderId,
                           nextDocId, now>>

PRESENCE_STALE_THRESHOLD == 30 * 1000

\* the userPresence rows of document d, by the by_document index
PresenceOf(d) == {k \in DOMAIN userPresence : k[1] = d}

removePresence(u, d) ==
    LET call(code) == Call("removePresence", u, d, "-", 0, code)
    IN  IF u = Anon THEN Throw(call("UNAUTHORIZED"))
        ELSE
            /\ userPresence' = DropPresence(d, u)
            /\ Record(call("ok"))
            /\ UNCHANGED <<documents, documentCollaborators, documentVersions, folders, nextFolderId,
                           nextDocId, now>>

\* getActiveUsers: the rows returned, each as its userId and lastSeen
getActiveUsers(u, d) ==
    IF u = Anon THEN {}
    ELSE LET threshold == now - PRESENCE_STALE_THRESHOLD
         IN  {[userId |-> k[2], lastSeen |-> userPresence[k]] :
                k \in {p \in PresenceOf(d) : userPresence[p] > threshold /\ p[2] # u}}

\* getActiveUserCount reads no identity
getActiveUserCount(d) ==
    LET threshold == now - PRESENCE_STALE_THRESHOLD
    IN  Cardinality({p \in PresenceOf(d) : userPresence[p] > threshold})

\* heartbeat patches lastSeen of the caller's row, when there is one
heartbeat(u, d) ==
    LET call(code) == Call("heartbeat", u, d, "-", 0, code)
    IN  IF u = Anon THEN Throw(call("UNAUTHORIZED"))
        ELSE
            /\ userPresence' =
                 [k \in DOMAIN userPresence |->
                    IF k = <<d, u>> THEN now ELSE userPresence[k]]
            /\ Record(call("ok"))
            /\ UNCHANGED <<documents, documentCollaborators, documentVersions, folders, nextFolderId,
                           nextDocId, now>>

\* updateCursorPosition patches cursorPosition, which the model does not
\* hold, and lastSeen of the caller's row, when there is one
updateCursorPosition(u, d) ==
    LET call(code) == Call("updateCursorPosition", u, d, "-", 0, code)
    IN  IF u = Anon THEN Throw(call("UNAUTHORIZED"))
        ELSE
            /\ userPresence' =
                 [k \in DOMAIN userPresence |->
                    IF k = <<d, u>> THEN now ELSE userPresence[k]]
            /\ Record(call("ok"))
            /\ UNCHANGED <<documents, documentCollaborators, documentVersions, folders, nextFolderId,
                           nextDocId, now>>

\* updateSelection patches selection, which the model does not hold, and
\* lastSeen of the caller's row, when there is one
updateSelection(u, d) ==
    LET call(code) == Call("updateSelection", u, d, "-", 0, code)
    IN  IF u = Anon THEN Throw(call("UNAUTHORIZED"))
        ELSE
            /\ userPresence' =
                 [k \in DOMAIN userPresence |->
                    IF k = <<d, u>> THEN now ELSE userPresence[k]]
            /\ Record(call("ok"))
            /\ UNCHANGED <<documents, documentCollaborators, documentVersions, folders, nextFolderId,
                           nextDocId, now>>

\* cleanupStalePresence with the threshold of the queries
cleanupStalePresenceOneThreshold ==
    LET threshold == now - PRESENCE_STALE_THRESHOLD
        stale == {k \in DOMAIN userPresence : userPresence[k] < threshold}
    IN  /\ userPresence' = [k \in DOMAIN userPresence \ stale |-> userPresence[k]]
        /\ Record([Call("cleanupStalePresence", "-", 0, "-", 0, "ok")
                     EXCEPT !.out = ToString(Cardinality(stale))])
        /\ UNCHANGED <<documents, documentCollaborators, documentVersions, folders, nextFolderId,
                       nextDocId, now>>

\* cleanupStalePresence, an internal mutation with no caller; out is the
\* number of rows deleted
cleanupStalePresence ==
    LET threshold == now - PRESENCE_STALE_THRESHOLD * 2
        stale == {k \in DOMAIN userPresence : userPresence[k] < threshold}
    IN  /\ userPresence' = [k \in DOMAIN userPresence \ stale |-> userPresence[k]]
        /\ Record([Call("cleanupStalePresence", "-", 0, "-", 0, "ok")
                     EXCEPT !.out = ToString(Cardinality(stale))])
        /\ UNCHANGED <<documents, documentCollaborators, documentVersions, folders, nextFolderId,
                       nextDocId, now>>

----------------------------------------------------------------------------
(* The clock: Date.now() never runs backwards *)

Tick(delta) ==
    /\ now' = now + delta
    /\ Record(Call("tick", "-", 0, "-", 0, "ok"))
    /\ UNCHANGED tables

----------------------------------------------------------------------------
(* The sharing specification: documents, folders and collaborators *)

Init ==
    /\ documents = <<>>
    /\ documentCollaborators = EmptyBag
    /\ documentVersions = <<>>
    /\ folders = <<>>
    /\ userPresence = <<>>
    /\ nextDocId = 1
    /\ nextFolderId = 1
    /\ now = 0
    /\ last = Call("init", "-", 0, "-", 0, "ok")
    /\ beforeDelete = NoSnap
    /\ autoLog = [d \in DocIds |-> [at |-> -1, kept |-> FALSE]]
    /\ inflight = [slot \in Slots |-> Idle]

\* the first document is created without a title or with an empty one, the
\* later ones with a title
Next ==
    \/ \E u \in Users, title \in {<<"t0">>, <<"">>, Undefined} :
         /\ nextDocId <= MaxDocs
         /\ (title = <<"t0">>) = (documents # <<>>)
         /\ createDocument(u, title, Undefined, NoFolder)
    \/ \E u \in Users, d \in DocIds, w \in Users, r \in {"viewer", "editor"} :
         addCollaborator(u, d, w, r)
    \/ \E u \in Users, d \in DocIds, w \in Users, r \in {"viewer", "editor"} :
         updateCollaboratorRole(u, d, w, r)
    \/ \E u \in Users, d \in DocIds, w \in Users : removeCollaborator(u, d, w)
    \/ \E u \in Users, d \in DocIds : leaveDocument(u, d)
    \/ \E u \in Users, d \in DocIds, w \in Users : transferOwnership(u, d, w)

Spec == Init /\ [][Next]_vars

----------------------------------------------------------------------------
(* Claims checked under Spec *)

\* C6: in every reachable state no document's owner is the user of a grant of
\* that document.
C6_OwnerHoldsNoGrant ==
    \A d \in DOMAIN documents : MatchCount(d, documents[d].ownerId) = 0

\* a transfer to a user who held a grant has just succeeded
C6_Witness ==
    /\ Succeeded(last, "transferOwnership")
    /\ last.note = "existing"
    /\ documents[last.doc].ownerId = last.who
    /\ HasGrant(last.doc, last.user)

\* C7: every (document, user) pair has at most one grant after every step, and
\* an addCollaborator call for a pair that already has a grant fails and inserts
\* nothing, with Conflict when the caller is the owner of the live document.
C7_OneGrantPerPair ==
    [][ /\ \A d \in DocIds, u \in Users : MatchCount(d, u)' <= 1
        /\ (/\ last'.op = "addCollaborator"
            /\ MatchCount(last'.doc, last'.who) >= 1)
             => /\ last'.code # "ok"
                /\ documentCollaborators' = documentCollaborators
                /\ (/\ Exists(last'.doc)
                    /\ ~documents[last'.doc].isDeleted
                    /\ documents[last'.doc].ownerId = last'.user)
                     => last'.code = "CONFLICT" ]_vars

\* the owner has just added a user who already held a grant, and got Conflict
C7_Witness ==
    /\ last.op = "addCollaborator"
    /\ last.code = "CONFLICT"
    /\ HasGrant(last.doc, last.who)

----------------------------------------------------------------------------
(* The trash specification: soft delete and restore of a shared document *)

NextTrash ==
    \/ now < MaxNow /\ Tick(1)
    \/ \E u \in Users, f \in {NoFolder} \cup FolderIds :
         /\ nextDocId <= MaxDocs
         /\ createDocument(u, <<"t0">>, Undefined, f)
    \/ \E u \in Users, d \in DocIds, w \in Users, r \in {"viewer", "editor"} :
         addCollaborator(u, d, w, r)
    \/ \E u \in Users, d \in DocIds :
         /\ Len(documentVersions) < MaxVersionRows
         /\ createVersion(u, d)
    \/ \E u \in Users, d \in DocIds : deleteDocument(u, d)
    \/ \E u \in Users, d \in DocIds : restoreDocument(u, d)
    \/ \E u \in Users, d \in DocIds, w \in Users : transferOwnership(u, d, w)

SpecTrash == Init /\ [][NextTrash]_vars

\* C8: after a successful transferOwnership(d, n) by p, n resolves to role
\* owner on d with isOwner true, p holds exactly one grant on d, with role
\* editor, and n holds no grant on d.
C8_TransferPostcondition ==
    Succeeded(last, "transferOwnership") =>
        LET access == checkAccess(last.who, last.doc)
        IN  /\ access.hasAccess
            /\ access.role = "owner"
            /\ access.isOwner
            /\ MatchCount(last.doc, last.user) = 1
            /\ GrantRole(last.doc, last.user) = "editor"
            /\ MatchCount(last.doc, last.who) = 0

\* the read operations that return document d, a version of it or a field
\* of it to caller u; a query that throws returns nothing, and the four that
\* look the grant up with .unique() throw on the same states
ReadsOf(u, d) ==
    LET returns == ~getDocumentThrows(u, d)
    IN  [getDocument |-> returns /\ d \in getDocument(u, d),
         listDocuments |-> \E f \in {NoFolder} \cup FolderIds, includeDeleted \in BOOLEAN :
                              d \in listDocuments(u, f, includeDeleted),
         getSharedDocuments |-> d \in getSharedDocuments(u),
         subscribeToDocument |-> returns /\ d \in subscribeToDocument(u, d),
         listVersions |-> returns /\ listVersions(u, d, 20) # {},
         getVersion |-> /\ returns
                        /\ \E i \in PositionsOf(documentVersions, d) : getVersion(u, i) # {},
         checkDocumentVersion |-> checkDocumentVersion(u, d, -1).hasChanged]

CanRead(u, d) ==
    LET r == ReadsOf(u, d)
    IN  \/ r.getDocument \/ r.listDocuments \/ r.getSharedDocuments
        \/ r.subscribeToDocument \/ r.listVersions \/ r.getVersion
        \/ r.checkDocumentVersion

\* C9: no read operation returns a soft-deleted document to a user who is not
\* its owner.
C9_DeletedHiddenFromNonOwners ==
    \A d \in DOMAIN documents, u \in Users :
        (documents[d].isDeleted /\ documents[d].ownerId # u) => ~CanRead(u, d)

\* what a collaborator may do with a live document, by the role of the grant
CollaboratorsServed ==
    \A d \in DOMAIN documents, u \in Users :
        HasGrant(d, u) =>
            /\ CanRead(u, d)
            /\ (roleHierarchy[GrantRole(d, u)] >= roleHierarchy["editor"])
                 <=> (checkDocumentAccess(d, u, "editor") = "ok")

\* C10: after the owner's deleteDocument no collaborator can read the document;
\* after the owner's restoreDocument that follows it, the document's title,
\* content, owner, folder, grants and versions are what they were before the
\* delete, and every collaborator can read or edit it again by their grant.
C10_DeleteRestoreRoundTrip ==
    [][ /\ \A d \in DocIds, u \in Users :
             (Succeeded(last', "deleteDocument") /\ last'.doc = d /\ HasGrant(d, u))
               => ~CanRead(u, d)'
        /\ (/\ Succeeded(last, "deleteDocument")
            /\ Succeeded(last', "restoreDocument")
            /\ last'.doc = last.doc)
             => /\ documents' =
                     [beforeDelete.documents EXCEPT
                        ![last.doc].updatedAt = documents'[last.doc].updatedAt]
                /\ documentCollaborators' = beforeDelete.documentCollaborators
                /\ documentVersions' = beforeDelete.documentVersions
                /\ CollaboratorsServed' ]_vars

----------------------------------------------------------------------------
(* The roles specification: one owner, one collaborator, the role-gated      *)
(* mutations of documents.ts                                                 *)

NextRoles ==
    \/ /\ nextDocId <= MaxDocs
       /\ createDocument("u1", <<"t0">>, <<"c0">>, NoFolder)
    \/ /\ Cardinality(DOMAIN folders) < MaxFolders
       /\ createFolder("u2", NoFolder)
    \/ \E d \in DocIds, r \in roleValidator : addCollaborator("u1", d, "u2", r)
    \/ \E d \in DocIds, r \in roleValidator : updateCollaboratorRole("u1", d, "u2", r)
    \/ \E u \in {"u1", "u2"}, d \in DocIds : updateDocument(u, d, <<"t1">>, Undefined, NoFolder)
    \/ \E u \in {"u1", "u2"}, d \in DocIds : renameDocument(u, d, "t1")
    \/ \E u \in {"u1", "u2"}, d \in DocIds, f \in {NoFolder} \cup FolderIds :
         moveDocument(u, d, f)
    \/ \E u \in {"u1", "u2"}, d \in DocIds : deleteDocument(u, d)

SpecRoles == Init /\ [][NextRoles]_vars

RoleGated == {"updateDocument", "renameDocument", "moveDocument", "deleteDocument"}

\* the step is a call of a role-gated mutation by a caller who has a resolved
\* role on the live document
RoleGatedCall ==
    /\ last'.op \in RoleGated
    /\ Exists(last'.doc)
    /\ ~documents[last'.doc].isDeleted
    /\ documents[last'.doc].ownerId = last'.user \/ HasGrant(last'.doc, last'.user)

RoleBelow ==
    roleHierarchy[resolvedRole(last'.doc, last'.user)]
        < roleHierarchy[requiredRole[last'.op]]

\* moveDocument was given a folder that is absent or not owned by the caller
TargetRejected ==
    /\ last'.op = "moveDocument"
    /\ last'.folder # NoFolder
    /\ \/ last'.folder \notin DOMAIN folders
       \/ folders[last'.folder].ownerId # last'.user

\* C5 as stated: a role-gated mutation fails with Forbidden and changes nothing
\* when the caller's role is below the required one, and succeeds when it is
\* the required role or higher.
C5_RoleOrderingAsStated ==
    [][ RoleGatedCall =>
          IF RoleBelow
          THEN last'.code = "FORBIDDEN" /\ tables' = tables
          ELSE last'.code = "ok" ]_vars

\* C5: a role-gated mutation fails with Forbidden and changes nothing when the
\* caller's role is below the required one; when it is the required role or
\* higher it succeeds, except that moveDocument to a folder that is absent or
\* not owned by the caller fails and changes nothing.
C5_RoleOrdering ==
    [][ RoleGatedCall =>
          IF RoleBelow
          THEN last'.code = "FORBIDDEN" /\ tables' = tables
          ELSE IF TargetRejected
          THEN last'.code = "FOLDER_REJECTED" /\ tables' = tables
          ELSE /\ last'.code = "ok"
               /\ last'.op = "deleteDocument" => documents'[last'.doc].isDeleted
               /\ last'.op \in {"updateDocument", "renameDocument"} =>
                    documents'[last'.doc].title = "t1"
               /\ last'.op = "moveDocument" =>
                    documents'[last'.doc].parentFolderId = last'.folder ]_vars

\* a collaborator with role editor has just been refused deleteDocument
C5_Witness ==
    /\ last.op = "deleteDocument"
    /\ last.code = "FORBIDDEN"
    /\ HasGrant(last.doc, last.user)
    /\ GrantRole(last.doc, last.user) = "editor"

----------------------------------------------------------------------------
(* The snapshot specification: createVersion alone, on one document, from an *)
(* empty history                                                             *)

NextCreate ==
    \/ now < MaxNow /\ Tick(1)
    \/ /\ documents = <<>>
       /\ createDocument("u1", <<"t0">>, <<"c0">>, NoFolder)
    \/ \E d \in DocIds : createVersion("u1", d)

SpecCreate == Init /\ [][NextCreate]_vars

\* the versions of s from position n on
From(s, n) == SubSeq(s, n, Len(s))

\* C1: after every successful createVersion the document has at most
\* MAX_VERSIONS versions, and they are the newest ones of the versions stored
\* before the call and the one the call inserted: the new version is kept, and
\* what was evicted was created no later than anything kept.
C1_MostRecentKept ==
    [][ \A d \in DocIds :
          (Succeeded(last', "createVersion") /\ last'.doc = d) =>
            LET all == Append(VersionsOf(d), Version(d, last'.user))
                kept == VersionsOf(d)'
                cut == Len(all) - Len(kept)
            IN  /\ Len(kept) <= MAX_VERSIONS
                /\ Len(kept) = IF Len(all) <= MAX_VERSIONS THEN Len(all) ELSE MAX_VERSIONS
                /\ kept = From(all, cut + 1)
                /\ \A i \in 1 .. cut, j \in cut + 1 .. Len(all) :
                      all[i].createdAt <= all[j].createdAt ]_vars

\* a createVersion on a full history has just evicted, and versions of
\* different times are stored
C1_Witness ==
    /\ Succeeded(last, "createVersion")
    /\ last.note = "evicted"
    /\ Len(VersionsOf(last.doc)) = MAX_VERSIONS
    /\ VersionsOf(last.doc)[1].createdAt < now
    /\ VersionsOf(last.doc)[MAX_VERSIONS].createdAt = now

----------------------------------------------------------------------------
(* The history specification: every mutation of versions.ts that inserts or  *)
(* deletes a version, by the owner of one document; restoreVersion takes the *)
(* first version stored, deleteVersion the last                              *)

NextCap ==
    \/ /\ now < MaxNow * MIN_VERSION_INTERVAL
       /\ Tick(MIN_VERSION_INTERVAL)
    \/ /\ documents = <<>>
       /\ createDocument("u1", <<"t0">>, <<"c0">>, NoFolder)
    \/ \E d \in DocIds : createVersion("u1", d)
    \/ \E d \in DocIds : autoCreateVersion("u1", d)
    \/ /\ Len(documentVersions) < MAX_VERSIONS + MaxSurplus
       /\ restoreVersion("u1", 1)
    \/ deleteVersion("u1", Len(documentVersions))

SpecCap == Init /\ [][NextCap]_vars

\* C2: in every reachable state every document has at most MAX_VERSIONS
\* versions stored.
C2_HistoryBounded ==
    \A d \in DOMAIN documents : Len(VersionsOf(d)) <= MAX_VERSIONS

----------------------------------------------------------------------------
(* The gate specification: autoCreateVersion and deleteVersion by the owner  *)
(* of one document, with the clock moving around MIN_VERSION_INTERVAL        *)

NextGate ==
    \/ \E delta \in {MIN_VERSION_INTERVAL - 1, MIN_VERSION_INTERVAL} :
         /\ now < MaxNow * MIN_VERSION_INTERVAL
         /\ Tick(delta)
    \/ /\ documents = <<>>
       /\ createDocument("u1", <<"t0">>, <<"c0">>, NoFolder)
    \/ \E d \in DocIds :
         /\ Len(documentVersions) < MaxVersionRows
         /\ autoCreateVersion("u1", d)
    \/ \E i \in 1 .. MaxVersionRows : deleteVersion("u1", i)

SpecGate == Init /\ [][NextGate]_vars

\* the step is an autoCreateVersion on d that inserted, after an earlier one
\* that inserted
SecondInsert(d) ==
    /\ last'.op = "autoCreateVersion"
    /\ last'.code = "true"
    /\ last'.doc = d
    /\ autoLog[d].at >= 0

\* C3 as stated: two autoCreateVersion calls on one document that both insert
\* are at least MIN_VERSION_INTERVAL apart.
C3_OneInsertPerIntervalAsStated ==
    [][ \A d \in DocIds :
          SecondInsert(d) => now - autoLog[d].at >= MIN_VERSION_INTERVAL ]_vars

\* C3: two autoCreateVersion calls on one document that both insert are at
\* least MIN_VERSION_INTERVAL apart, when no deleteVersion on the document
\* succeeded between them.
C3_OneInsertPerInterval ==
    [][ \A d \in DocIds :
          (SecondInsert(d) /\ autoLog[d].kept)
            => now - autoLog[d].at >= MIN_VERSION_INTERVAL ]_vars

\* an autoCreateVersion has just returned false, less than
\* MIN_VERSION_INTERVAL after one that inserted, with no deleteVersion between
C3_Witness ==
    /\ last.op = "autoCreateVersion"
    /\ last.code = "false"
    /\ autoLog[last.doc].at >= 0
    /\ autoLog[last.doc].kept
    /\ now > autoLog[last.doc].at
    /\ now - autoLog[last.doc].at < MIN_VERSION_INTERVAL

----------------------------------------------------------------------------
(* The restore specification: an owner and a collaborator edit one document, *)
(* take versions of it and restore them                                      *)

NextRestore ==
    \/ now < MaxNow /\ Tick(1)
    \/ /\ documents = <<>>
       /\ createDocument("u1", <<"t0">>, <<"c0">>, NoFolder)
    \/ \E d \in DocIds, r \in {"viewer", "editor"} : addCollaborator("u1", d, "u2", r)
    \/ \E u \in {"u1", "u2"}, d \in DocIds : updateDocument(u, d, <<"t1">>, <<"c1">>, NoFolder)
    \/ \E d \in DocIds : deleteDocument("u1", d)
    \/ \E u \in {"u1", "u2"}, d \in DocIds :
         /\ Len(documentVersions) < MaxVersionRows
         /\ createVersion(u, d)
    \/ \E u \in {"u1", "u2"}, i \in 1 .. MaxVersionRows :
         /\ Len(documentVersions) < MaxVersionRows
         /\ restoreVersion(u, i)

SpecRestore == Init /\ [][NextRestore]_vars

\* C4: a restoreVersion(v) by the owner or an editor of the live document
\* succeeds; after a successful restoreVersion(v) the document's content and
\* title are those of v, the caller reads them with getDocument, and one
\* version was inserted, after the ones stored, that holds the content and
\* title the document had before the call.
C4_RestorePostcondition ==
    [][ \A d \in DocIds, u \in Users, i \in 1 .. Len(documentVersions) :
          (/\ last'.op = "restoreVersion"
           /\ last'.doc = d /\ last'.user = u /\ last'.ver = i)
            => LET v == documentVersions[i]
                   n == Len(documentVersions)
                   backup == documentVersions'[n + 1]
               IN  /\ (/\ Exists(d)
                       /\ ~documents[d].isDeleted
                       /\ \/ documents[d].ownerId = u
                          \/ HasGrant(d, u) /\ GrantRole(d, u) = "editor")
                        => last'.code = "ok"
                   /\ last'.code = "ok" =>
                        /\ documents'[d].content = v.content
                        /\ documents'[d].title = v.title
                        /\ getDocument(u, d)' = {d}
                        /\ Len(documentVersions') = n + 1
                        /\ SubSeq(documentVersions', 1, n) = documentVersions
                        /\ backup.documentId = d
                        /\ backup.content = documents[d].content
                        /\ backup.title = documents[d].title ]_vars

\* an editor has just restored a version that differs from the document, and
\* the backup holds what the document was
C4_Witness ==
    /\ Succeeded(last, "restoreVersion")
    /\ documents[last.doc].ownerId # last.user
    /\ documentVersions[Len(documentVersions)].content # documents[last.doc].content
    /\ documentVersions[Len(documentVersions)].title # documents[last.doc].title

----------------------------------------------------------------------------
(* Soft delete, retried: checked under SpecTrash *)

\* C11: a deleteDocument by the owner on a document that is already
\* soft-deleted completes without error and leaves the document soft-deleted.
C11_DeleteIdempotent ==
    [][ \A d \in DocIds :
          (/\ last'.op = "deleteDocument"
           /\ last'.doc = d
           /\ Exists(d)
           /\ documents[d].isDeleted
           /\ documents[d].ownerId = last'.user)
            => /\ last'.code = "ok"
               /\ documents'[d].isDeleted ]_vars

----------------------------------------------------------------------------
(* The purge specification: documents of one owner with a collaborator,      *)
(* versions and presence rows, and their permanent deletion                  *)

\* one document more than DocIds, so that a purge has another document beside it
PurgeDocIds == 1 .. MaxDocs + 1

NextPurge ==
    \/ /\ nextDocId \in PurgeDocIds
       /\ createDocument("u1", <<"t0">>, <<"c0">>, NoFolder)
    \/ \E d \in PurgeDocIds : addCollaborator("u1", d, "u2", "editor")
    \/ \E d \in PurgeDocIds :
         /\ Len(documentVersions) < MaxVersionRows
         /\ createVersion("u1", d)
    \/ \E d \in PurgeDocIds :
         /\ d < nextDocId
         /\ updatePresence("u2", d)
    \/ \E u \in {"u1", "u2"}, d \in PurgeDocIds : permanentlyDeleteDocument(u, d)

SpecPurge == Init /\ [][NextPurge]_vars

\* C12: a permanentlyDeleteDocument(d) by the owner of d succeeds and removes
\* the document row and every grant, version and presence row of d, and leaves
\* the rows of every other document as they were; by a caller who is not the
\* owner it fails and removes nothing.
C12_PurgeCascade ==
    [][ \A d \in PurgeDocIds :
          (last'.op = "permanentlyDeleteDocument" /\ last'.doc = d /\ Exists(d)) =>
            IF documents[d].ownerId = last'.user
            THEN /\ last'.code = "ok"
                 /\ d \notin DOMAIN documents'
                 /\ \A g \in BagToSet(documentCollaborators') : g.documentId # d
                 /\ \A i \in 1 .. Len(documentVersions') :
                       documentVersions'[i].documentId # d
                 /\ \A k \in DOMAIN userPresence' : k[1] # d
                 /\ documents' = DocumentsWithout(d)
                 /\ documentCollaborators' = GrantsNotOf(d)
                 /\ documentVersions' = VersionsNotOf(d)
                 /\ userPresence' = PresenceNotOf(d)
                 /\ folders' = folders
            ELSE /\ last'.code # "ok"
                 /\ tables' = tables ]_vars

\* a document that had grants, versions and presence rows has just been
\* purged, and another document still has a grant, a version and a presence row
C12_Witness ==
    /\ Succeeded(last, "permanentlyDeleteDocument")
    /\ last.note = "cascade"
    /\ \E e \in DOMAIN documents :
         /\ HasGrant(e, "u2")
         /\ VersionsOf(e) # <<>>
         /\ <<e, "u2">> \in DOMAIN userPresence

----------------------------------------------------------------------------
(* The access specification: callers with and without identity, with and     *)
(* without a grant, on a document that is absent, live or soft-deleted       *)

NextAccess ==
    \/ /\ nextDocId <= MaxDocs
       /\ createDocument("u1", <<"t0">>, <<"c0">>, NoFolder)
    \/ \E d \in DocIds, r \in {"viewer", "editor"} : addCollaborator("u1", d, "u2", r)
    \/ \E u \in Users \cup {Anon}, d \in DocIds :
         updateDocument(u, d, <<"t1">>, Undefined, NoFolder)
    \/ \E u \in Users \cup {Anon}, d \in DocIds : deleteDocument(u, d)
    \/ \E u \in Users \cup {Anon}, d \in DocIds :
         /\ Len(documentVersions) < MaxVersionRows
         /\ createVersion(u, d)

SpecAccess == Init /\ [][NextAccess]_vars

\* the role the access check of an operation requires: the mutations of
\* realtime.ts pass "editor"; the check of versions.ts takes no required role
\* and duplicateDocument passes none, so every grant passes it
AccessRequired(op) ==
    IF op \in DOMAIN requiredRole THEN requiredRole[op]
    ELSE IF op \in {"updateDocumentContent", "updateDocumentTitle", "batchUpdateDocument"}
         THEN "editor"
    ELSE "viewer"

\* C13: a call that goes through the access check fails with Unauthorized when
\* the caller has no identity, whatever the document; otherwise with NotFound
\* when the document is absent or soft-deleted, whatever the caller's role;
\* otherwise with Forbidden when the caller is not the owner and has no grant
\* or a grant below the required role; otherwise it succeeds.
C13_ErrorPrecedence ==
    [][ \A d \in DocIds :
          (last'.op \in {"updateDocument", "deleteDocument", "createVersion"}
             /\ last'.doc = d) =>
            last'.code =
              IF last'.user = Anon THEN "UNAUTHORIZED"
              ELSE IF ~Exists(d) \/ documents[d].isDeleted THEN "NOT_FOUND"
              ELSE IF documents[d].ownerId = last'.user THEN "ok"
              ELSE IF ~HasGrant(d, last'.user) THEN "FORBIDDEN"
              ELSE IF roleHierarchy[GrantRole(d, last'.user)]
                        < roleHierarchy[AccessRequired(last'.op)] THEN "FORBIDDEN"
              ELSE "ok" ]_vars

\* the owner has just been answered NotFound on the soft-deleted document
C13_Witness ==
    /\ last.op = "updateDocument"
    /\ last.code = "NOT_FOUND"
    /\ Exists(last.doc)
    /\ documents[last.doc].isDeleted
    /\ documents[last.doc].ownerId = last.user

----------------------------------------------------------------------------
(* The duplicate specification: a shared document and its copies *)

NextDuplicate ==
    \/ \E f \in {NoFolder} \cup FolderIds :
         /\ documents = <<>>
         /\ createDocument("u1", <<"t0">>, <<"c0">>, f)
    \/ \E d \in PurgeDocIds, r \in roleValidator : addCollaborator("u1", d, "u2", r)
    \/ \E d \in PurgeDocIds : updateDocument("u1", d, Undefined, <<"c1">>, NoFolder)
    \/ \E u \in Users, d \in PurgeDocIds :
         /\ nextDocId \in PurgeDocIds
         /\ duplicateDocument(u, d)

SpecDuplicate == Init /\ [][NextDuplicate]_vars

\* C14: a duplicateDocument by a caller whose role on the live source is
\* viewer or editor fails with Forbidden and creates no document; a
\* duplicateDocument that succeeds inserts one document, owned by the caller,
\* with the content and the folder of the source.
C14_DuplicateNeedsOwner ==
    [][ \A d \in PurgeDocIds :
          (last'.op = "duplicateDocument" /\ last'.doc = d /\ Exists(d)
             /\ ~documents[d].isDeleted) =>
            /\ (/\ documents[d].ownerId # last'.user
                /\ HasGrant(d, last'.user)
                /\ GrantRole(d, last'.user) \in {"viewer", "editor"})
                 => (last'.code = "FORBIDDEN" /\ tables' = tables)
            /\ last'.code = "ok" =>
                 /\ DOMAIN documents' = DOMAIN documents \cup {nextDocId}
                 /\ documents'[nextDocId].ownerId = last'.user
                 /\ documents'[nextDocId].content = documents[d].content
                 /\ documents'[nextDocId].parentFolderId = documents[d].parentFolderId ]_vars

----------------------------------------------------------------------------
(* The deleted specification: every mutation addressed to one shared         *)
(* document, live or soft-deleted                                            *)

NextDeleted ==
    \/ /\ nextDocId <= MaxDocs
       /\ createDocument("u1", <<"t0">>, <<"c0">>, NoFolder)
    \/ \E d \in DocIds, r \in {"viewer", "editor"} : addCollaborator("u1", d, "u2", r)
    \/ \E d \in DocIds : deleteDocument("u1", d)
    \/ \E d \in DocIds : restoreDocument("u1", d)
    \/ \E u \in {"u1", "u2"}, d \in DocIds : updateDocument(u, d, <<"t1">>, Undefined, NoFolder)
    \/ \E d \in DocIds :
         /\ Len(documentVersions) < MaxVersionRows
         /\ createVersion("u1", d)
    \/ \E i \in 1 .. MaxVersionRows :
         /\ Len(documentVersions) < MaxVersionRows
         /\ restoreVersion("u1", i)
    \/ \E i \in 1 .. MaxVersionRows : deleteVersion("u1", i)
    \/ \E d \in DocIds : removeCollaborator("u1", d, "u2")
    \/ \E d \in DocIds, r \in {"viewer", "editor"} :
         updateCollaboratorRole("u1", d, "u2", r)
    \/ \E d \in DocIds : transferOwnership("u1", d, "u2")

SpecDeleted == Init /\ [][NextDeleted]_vars

\* the mutations that are neither the restore nor a purge of a document
Blocked ==
    {"updateDocument", "createVersion", "restoreVersion", "deleteVersion",
     "addCollaborator", "removeCollaborator", "updateCollaboratorRole",
     "transferOwnership"}

\* C15: every mutation addressed to a soft-deleted document, other than its
\* restore and its purge, fails and leaves documents, grants and versions
\* unchanged, whoever calls it.
C15_DeletedBlocksMutations ==
    [][ \A d \in DocIds :
          (/\ last'.op \in Blocked
           /\ last'.doc = d
           /\ Exists(d)
           /\ documents[d].isDeleted)
            => /\ last'.code # "ok"
               /\ documents' = documents
               /\ documentCollaborators' = documentCollaborators
               /\ documentVersions' = documentVersions ]_vars

----------------------------------------------------------------------------
(* The versions specification: one document that is edited, renamed, handed  *)
(* over and purged while versions of it are taken, restored and deleted      *)

NextVersions ==
    \/ /\ nextDocId <= MaxDocs
       /\ createDocument("u1", <<"t0">>, <<"c0">>, NoFolder)
    \/ \E d \in DocIds : updateDocument("u1", d, <<"t1">>, <<"c1">>, NoFolder)
    \/ \E d \in DocIds : renameDocument("u1", d, "t1")
    \/ \E d \in DocIds : transferOwnership("u1", d, "u2")
    \/ \E d \in DocIds :
         /\ Len(documentVersions) < MaxVersionRows
         /\ createVersion("u1", d)
    \/ \E d \in DocIds :
         /\ Len(documentVersions) < MaxVersionRows
         /\ autoCreateVersion("u1", d)
    \/ \E i \in 1 .. MaxVersionRows :
         /\ Len(documentVersions) < MaxVersionRows
         /\ restoreVersion("u1", i)
    \/ \E i \in 1 .. MaxVersionRows : deleteVersion("u1", i)
    \/ cleanupOldVersions
    \/ \E d \in DocIds : permanentlyDeleteDocument("u2", d)

SpecVersions == Init /\ [][NextVersions]_vars

\* a is b with some of its rows deleted: the rows of a are rows of b, in order
RECURSIVE SubseqFrom(_, _, _, _)
SubseqFrom(a, i, b, j) ==
    IF i > Len(a) THEN TRUE
    ELSE IF j > Len(b) THEN FALSE
    ELSE IF a[i] = b[j] THEN SubseqFrom(a, i + 1, b, j + 1)
    ELSE SubseqFrom(a, i, b, j + 1)

IsSubseq(a, b) == SubseqFrom(a, 1, b, 1)

Front(s) == SubSeq(s, 1, Len(s) - 1)

Inserting == {"createVersion", "autoCreateVersion", "restoreVersion"}

Removing == {"deleteVersion", "createVersion", "autoCreateVersion",
             "cleanupOldVersions", "permanentlyDeleteDocument", "emptyTrash"}

\* C16: in every step the versions stored after it are the versions stored
\* before it, with every field as it was and in the same order, less the ones
\* removed, plus at most one inserted by createVersion, autoCreateVersion or
\* restoreVersion; versions are removed only by deleteVersion, eviction,
\* cleanup or a purge, and every other operation leaves the table as it was.
C16_VersionsImmutable ==
    [][ LET old == documentVersions
            new == documentVersions'
            inserted == /\ last'.op \in Inserting
                        /\ last'.code \in {"ok", "true"}
            kept == IF inserted THEN Front(new) ELSE new
        IN  /\ inserted => /\ new # <<>>
                            /\ new[Len(new)].documentId = last'.doc
                            /\ new[Len(new)].createdAt = now
                            /\ new[Len(new)].createdBy = last'.user
            /\ IsSubseq(kept, old)
            /\ kept # old => last'.op \in Removing
            /\ last'.op \notin (Inserting \cup Removing) => new = old ]_vars

\* the document was edited, renamed and handed over after a version of it was
\* taken, and the version still holds what the document was then
C16_Witness ==
    /\ Succeeded(last, "transferOwnership")
    /\ \E i \in 1 .. Len(documentVersions) :
         /\ documentVersions[i].documentId = last.doc
         /\ documentVersions[i].createdBy = last.user
         /\ documentVersions[i].content # documents[last.doc].content
         /\ documentVersions[i].title # documents[last.doc].title

\* C17: createVersion, autoCreateVersion, deleteVersion and cleanupOldVersions
\* leave every document row as it was; a restoreVersion that succeeds changes
\* no document but the version's own, of it only content, title and
\* updatedAt, and inserts one version; a restoreVersion that fails changes no
\* document.
C17_VersionOpsFrame ==
    [][ /\ last'.op \in {"createVersion", "autoCreateVersion", "deleteVersion",
                          "cleanupOldVersions"}
             => documents' = documents
        /\ \A d \in DocIds :
             (last'.op = "restoreVersion" /\ last'.doc = d) =>
               IF last'.code = "ok"
               THEN /\ documents' =
                         [documents EXCEPT ![d].content = documents'[d].content,
                                           ![d].title = documents'[d].title,
                                           ![d].updatedAt = documents'[d].updatedAt]
                    /\ Len(documentVersions') = Len(documentVersions) + 1
               ELSE documents' = documents
        /\ (last'.op = "restoreVersion" /\ last'.doc \notin DocIds)
             => documents' = documents ]_vars

\* an editor has just restored a version of a document owned by someone else,
\* and the document's content changed
C17_Witness ==
    /\ Succeeded(last, "restoreVersion")
    /\ documents[last.doc].ownerId = "u2"
    /\ last.user = "u1"
    /\ documentVersions[Len(documentVersions)].content # documents[last.doc].content

----------------------------------------------------------------------------
(* The export specification: documents of every stored content, exported by
   their owner, a collaborator, a stranger and an anonymous caller *)

NextExport ==
    \/ \E content \in ExportContents :
         /\ nextDocId <= MaxDocs
         /\ createDocument("u1", <<"t0">>, <<content>>, NoFolder)
    \/ \E d \in DocIds, content \in ExportContents :
         updateDocument("u1", d, Undefined, <<content>>, NoFolder)
    \/ \E d \in DocIds : addCollaborator("u1", d, "u2", "viewer")
    \/ \E d \in DocIds : deleteDocument("u1", d)
    \/ \E u \in Users \cup {Anon}, d \in DocIds : exportToMarkdown(u, d)
    \/ \E u \in Users \cup {Anon}, d \in DocIds,
          args \in {[documentId |-> d] : d \in DocIds}
                     \cup [documentId : DocIds, includeStyles : BOOLEAN] :
         /\ args.documentId = d
         /\ exportToHTML(u, d, args)
    \/ \E u \in Users \cup {Anon}, d \in DocIds : exportToText(u, d)
    \/ \E u \in Users \cup {Anon}, d \in DocIds : exportToJSON(u, d)

SpecExport == Init /\ [][NextExport]_vars

\* C18: an exportToMarkdown, exportToHTML or exportToText call on a document
\* the caller can read, whose stored content is no parseable content tree,
\* fails with the structured code VALIDATION_ERROR
C18_ExportValidationError ==
    [][\A d \in DocIds :
         (/\ last'.op \in {"exportToMarkdown", "exportToHTML", "exportToText"}
          /\ last'.doc = d
          /\ getDocument(last'.user, d) # {}
          /\ JSONParse(documents[d].content) = SyntaxError)
         => last'.code = "VALIDATION_ERROR"]_vars

\* the content field an export of the content returns
Emitted(op, note, content) ==
    CASE op = "exportToMarkdown" -> tiptapToMarkdown(content)
      [] op = "exportToHTML" -> tiptapToHTML(content, note = "styles")
      [] op = "exportToText" -> tiptapToText(content)

\* C19: an export of the tree doc[paragraph[text "hi" marked bold]] returns
\* **hi** as markdown, <p><strong>hi</strong></p> as HTML without the document
\* shell and hi as plain text; and what a successful export returns is fixed by
\* the operation and the stored content alone, whoever calls and whenever
C19_EmittersOnExample ==
    [][\A d \in DocIds :
         (/\ last'.op \in {"exportToMarkdown", "exportToHTML", "exportToText"}
          /\ last'.doc = d
          /\ last'.code = "ok")
         => /\ last'.out = Emitted(last'.op, last'.note, documents[d].content).value
            /\ documents[d].content = ExampleContent =>
                 /\ last'.op = "exportToMarkdown" => last'.out = "**hi**"
                 /\ (last'.op = "exportToHTML" /\ last'.note = "body")
                      => last'.out = "<p><strong>hi</strong></p>"
                 /\ last'.op = "exportToText" => last'.out = "hi"]_vars

\* a collaborator has exported the example tree as HTML without the shell
C19_Witness ==
    /\ Succeeded(last, "exportToHTML")
    /\ last.note = "body"
    /\ last.user = "u2"
    /\ Exists(last.doc)
    /\ documents[last.doc].content = ExampleContent
    /\ last.out = "<p><strong>hi</strong></p>"

----------------------------------------------------------------------------
(* The presence specification: two users heartbeat on one document while the
   clock moves in steps around the stale threshold *)

NextPresence ==
    \/ \E delta \in {PRESENCE_STALE_THRESHOLD - 1, PRESENCE_STALE_THRESHOLD,
                      PRESENCE_STALE_THRESHOLD + 1} :
         /\ now < (MaxNow + 1) * PRESENCE_STALE_THRESHOLD
         /\ Tick(delta)
    \/ /\ documents = <<>>
       /\ createDocument("u1", <<"t0">>, <<"c0">>, NoFolder)
    \/ \E u \in {"u1", "u2"}, d \in DocIds :
         /\ d < nextDocId
         /\ updatePresence(u, d)
    \/ \E u \in {"u1", "u2"}, d \in DocIds :
         /\ d < nextDocId
         /\ heartbeat(u, d)
    \/ \E d \in DocIds :
         /\ d < nextDocId
         /\ updateCursorPosition("u2", d)
    \/ \E d \in DocIds :
         /\ d < nextDocId
         /\ updateSelection("u2", d)
    \/ \E d \in DocIds :
         /\ d < nextDocId
         /\ removePresence("u2", d)
    \/ cleanupStalePresence

SpecPresence == Init /\ [][NextPresence]_vars

\* milliseconds since the row was last refreshed
Age(k) == now - userPresence[k]

\* what the two queries report at the present time
PresenceReported ==
    \A d \in DocIds :
      /\ getActiveUsers(Anon, d) = {}
      /\ getActiveUserCount(d)
           = Cardinality({k \in PresenceOf(d) : Age(k) < 30000})
      /\ \A k \in PresenceOf(d), u \in Users :
           LET row == [userId |-> k[2], lastSeen |-> userPresence[k]]
           IN  /\ Age(k) >= 30000 => row \notin getActiveUsers(u, d)
               /\ (Age(k) < 30000 /\ u # k[2]) => row \in getActiveUsers(u, d)

\* C20: at every time, getActiveUsers and getActiveUserCount report no
\* presence row last refreshed 30 seconds or more ago, and getActiveUsers
\* reports every row refreshed less than 30 seconds ago to every authenticated
\* user other than the row's own; cleanupStalePresence deletes exactly the rows
\* last refreshed more than 60 seconds ago, so a row aged 30 to 60 seconds
\* stays stored unreported
C20_PresenceExpiry ==
    [][/\ PresenceReported'
       /\ last'.op = "cleanupStalePresence" =>
            /\ DOMAIN userPresence' = {k \in DOMAIN userPresence : Age(k) <= 60000}
            /\ \A k \in DOMAIN userPresence' : userPresence'[k] = userPresence[k]]_vars

\* a sweep has deleted one row and kept another that is aged between 30 and
\* 60 seconds and counted by no query
C20_Witness ==
    /\ last.op = "cleanupStalePresence"
    /\ last.out = "1"
    /\ \E k \in PresenceOf(1) : Age(k) >= 30000 /\ Age(k) <= 60000
    /\ getActiveUserCount(1) = 0
    /\ getActiveUsers("u3", 1) = {}

----------------------------------------------------------------------------
(* The snapshot specification: an owner edits a document and takes manual and
   automatic snapshots, a viewer takes automatic ones, while the clock moves in
   steps around MIN_VERSION_INTERVAL *)

NextAuto ==
    \/ \E delta \in {MIN_VERSION_INTERVAL - 1, MIN_VERSION_INTERVAL} :
         /\ now < MaxNow * MIN_VERSION_INTERVAL
         /\ Tick(delta)
    \/ /\ documents = <<>>
       /\ createDocument("u1", <<"t0">>, <<"c0">>, NoFolder)
    \/ \E d \in DocIds : updateDocument("u1", d, <<"t1">>, <<"c1">>, NoFolder)
    \/ \E d \in DocIds : addCollaborator("u1", d, "u2", "viewer")
    \/ \E d \in DocIds :
         /\ Len(documentVersions) < MaxVersionRows
         /\ createVersion("u1", d)
    \/ \E u \in Users, d \in DocIds :
         /\ Len(documentVersions) < MaxVersionRows
         /\ autoCreateVersion(u, d)

SpecAuto == Init /\ [][NextAuto]_vars

\* C21: an autoCreateVersion on d by a caller who can read d returns a boolean;
\* it returns true exactly when d has no version or every version of d is at
\* least MIN_VERSION_INTERVAL old; when true it appends one version holding the
\* present title and content of d, stamped now and with the caller; when false
\* the versions are left as they were
C21_AutoSnapshotGate ==
    [][\A d \in DocIds :
         (/\ last'.op = "autoCreateVersion"
          /\ last'.doc = d
          /\ getDocument(last'.user, d) # {})
         => LET due == \A i \in PositionsOf(documentVersions, d) :
                          now - documentVersions[i].createdAt >= MIN_VERSION_INTERVAL
            IN  /\ last'.code \in {"true", "false"}
                /\ last'.code = "true" <=> due
                /\ due => documentVersions' =
                            Append(documentVersions,
                                   [documentId |-> d,
                                    content |-> documents[d].content,
                                    title |-> documents[d].title,
                                    createdAt |-> now,
                                    createdBy |-> last'.user])
                /\ ~due => documentVersions' = documentVersions]_vars

\* a viewer's automatic snapshot went in exactly MIN_VERSION_INTERVAL after
\* the version before it, and holds an edited content
C21_Witness ==
    /\ last.op = "autoCreateVersion"
    /\ last.code = "true"
    /\ last.user = "u2"
    /\ Len(documentVersions) = 2
    /\ documentVersions[2].createdAt - documentVersions[1].createdAt = MIN_VERSION_INTERVAL
    /\ documentVersions[2].content = "c1"

----------------------------------------------------------------------------
(* The race specification: autoCreateVersion calls on one document overlap,
   each reading the versions before another inserts; the clock moves and the
   owner deletes versions in between *)

NextRace ==
    \/ \E delta \in {MIN_VERSION_INTERVAL - 1, MIN_VERSION_INTERVAL} :
         /\ now < MaxNow * MIN_VERSION_INTERVAL
         /\ Tick(delta)
    \/ /\ documents = <<>>
       /\ createDocument("u1", <<"t0">>, <<"c0">>, NoFolder)
    \/ \E d \in DocIds :
         \* the owner edits once, while a call is between its reads and writes
         /\ Exists(d) /\ documents[d].content = "c0"
         /\ \E slot \in Slots : inflight[slot] # Idle
         /\ updateDocumentContent("u1", d, "c1")
    \/ \E slot \in Slots, d \in DocIds, u \in {"u1", Anon} :
         /\ d < nextDocId
         /\ Len(documentVersions) + Cardinality({x \in Slots : inflight[x] # Idle})
              < MaxVersionRows
         \* callers the handler turns away call while no version is stored
         /\ u = "u1" \/ documentVersions = <<>>
         /\ autoCreateVersionRead(slot, u, d)
    \/ \E slot \in Slots : autoCreateVersionWrite(slot)
    \/ \E i \in 1 .. MaxVersionRows : deleteVersion("u1", i)

SpecRace == Init /\ [][NextRace]_vars

\* the step is the write step of the call in the slot
WriteStep(slot) == inflight[slot] # Idle /\ inflight'[slot] = Idle

----------------------------------------------------------------------------
(* The sweep specification: the documents are created before the clock moves,
   and the clock moves once the history of document 1 is nearly full; document
   1 grows to MAX_VERSIONS versions by createVersion and then past it through
   restoreVersion,
   another document holds a single version, and cleanupOldVersions runs at any
   time *)

\* the two documents of the sweep specification
SweepDocIds == {1, 2}

NextSweep ==
    \/ /\ now < MaxNow * MIN_VERSION_INTERVAL
       /\ Len(VersionsOf(1)) >= MAX_VERSIONS - 1
       /\ Tick(MIN_VERSION_INTERVAL)
    \/ /\ nextDocId \in SweepDocIds
       /\ now = 0
       /\ documentVersions = <<>>
       /\ createDocument("u1", <<"t0">>, <<"c0">>, NoFolder)
    \/ \E d \in SweepDocIds \ {1} :
         /\ documentVersions = <<>>
         /\ createVersion("u1", d)
    \/ /\ Len(VersionsOf(1)) < MAX_VERSIONS
       /\ createVersion("u1", 1)
    \/ /\ Len(VersionsOf(1)) >= MAX_VERSIONS
       /\ Len(VersionsOf(1)) < MAX_VERSIONS + MaxSurplus
       /\ restoreVersion("u1", Len(documentVersions))
    \/ cleanupOldVersions

SpecSweep == Init /\ [][NextSweep]_vars

\* C23: a cleanupOldVersions run leaves every document with at most
\* MAX_VERSIONS versions; of a document that had more it removes the oldest
\* surplus, none of them newer than a version kept; a document with
\* MAX_VERSIONS versions or fewer keeps all of them; and the number returned is
\* the number of versions removed
C23_SweepRestoresCap ==
    [][last'.op = "cleanupOldVersions" =>
         /\ last'.out = ToString(Len(documentVersions) - Len(documentVersions'))
         /\ \A d \in SweepDocIds :
              LET V == VersionsOf(d)
                  n == Len(V)
              IN  /\ Len(VersionsOf(d)') <= MAX_VERSIONS
                  /\ n <= MAX_VERSIONS => VersionsOf(d)' = V
                  /\ n > MAX_VERSIONS =>
                       /\ VersionsOf(d)' = SubSeq(V, n - MAX_VERSIONS + 1, n)
                       /\ \A i \in 1 .. n - MAX_VERSIONS, j \in n - MAX_VERSIONS + 1 .. n :
                            V[i].createdAt <= V[j].createdAt]_vars

\* a sweep has removed the one surplus version of document 1, the older of
\* two generations, and kept the single version of another document
C23_Witness ==
    /\ last.op = "cleanupOldVersions"
    /\ last.out = "1"
    /\ Len(VersionsOf(1)) = MAX_VERSIONS
    /\ VersionsOf(1)[1].createdAt < VersionsOf(1)[MAX_VERSIONS].createdAt
    /\ Len(VersionsOf(2)) = 1

----------------------------------------------------------------------------
(* The trash-emptying specification: u1 and u2 each own documents with a
   grant, a version and a presence row, soft-delete them and empty their
   trash *)

EmptyDocIds == 1 .. MaxDocs + 1

\* the first document is created by u1, the later ones by u2
Creator == IF nextDocId = 1 THEN "u1" ELSE "u2"

NextEmpty ==
    \/ /\ nextDocId \in EmptyDocIds
       /\ createDocument(Creator, <<"t0">>, <<"c0">>, NoFolder)
    \/ \E d \in DOMAIN documents : addCollaborator(documents[d].ownerId, d, "u3", "viewer")
    \/ \E d \in DOMAIN documents :
         /\ Len(documentVersions) < MaxVersionRows
         /\ createVersion(documents[d].ownerId, d)
    \/ \E d \in DOMAIN documents : updatePresence("u3", d)
    \/ \E d \in DOMAIN documents : deleteDocument(documents[d].ownerId, d)
    \/ \E u \in {"u1", "u2", Anon} : emptyTrash(u)

SpecEmpty == Init /\ [][NextEmpty]_vars

\* the rows of the three dependent tables that reference d are the same before
\* and after the step
DependentsKept(d) ==
    /\ VersionsOf(d)' = VersionsOf(d)
    /\ \A g \in BagToSet(documentCollaborators) \cup BagToSet(documentCollaborators') :
         g.documentId = d =>
           CopiesIn(g, documentCollaborators') = CopiesIn(g, documentCollaborators)
    /\ \A k \in DOMAIN userPresence \cup DOMAIN userPresence' :
         k[1] = d => /\ k \in DOMAIN userPresence
                     /\ k \in DOMAIN userPresence'
                     /\ userPresence'[k] = userPresence[k]

\* no row of the three dependent tables references d after the step
DependentsGone(d) ==
    /\ VersionsOf(d)' = <<>>
    /\ \A g \in BagToSet(documentCollaborators') : g.documentId # d
    /\ \A k \in DOMAIN userPresence' : k[1] # d

\* C24: an emptyTrash by u removes the documents that are soft-deleted and
\* owned by u with all their version, grant and presence rows, and leaves
\* every other document, with the rows that reference it, as it was
C24_EmptyTrashFrame ==
    [][(last'.op = "emptyTrash" /\ last'.user # Anon) =>
         /\ last'.code = "ok"
         /\ DOMAIN documents' \subseteq DOMAIN documents
         /\ \A d \in DOMAIN documents :
              IF documents[d].isDeleted /\ documents[d].ownerId = last'.user
              THEN d \notin DOMAIN documents' /\ DependentsGone(d)
              ELSE /\ d \in DOMAIN documents'
                   /\ documents'[d] = documents[d]
                   /\ DependentsKept(d)]_vars

\* u2 has emptied a trash of one document, and a soft-deleted document of u1
\* is still stored with its grant, version and presence row
C24_Witness ==
    /\ Succeeded(last, "emptyTrash")
    /\ last.user = "u2"
    /\ last.out = "1"
    /\ Exists(1)
    /\ documents[1].isDeleted
    /\ HasGrant(1, "u3")
    /\ VersionsOf(1) # <<>>
    /\ <<1, "u3">> \in DOMAIN userPresence

----------------------------------------------------------------------------
(* The viewer specification: u2 holds a viewer or an editor grant on the
   document of u1, tries every operation that writes its title, content or
   folder, and deletes folders of its own; the live sync hands in snapshots *)

NextViewer ==
    \/ /\ documents = <<>>
       /\ createDocument("u1", <<"t0">>, <<"c0">>, NoFolder)
    \/ /\ nextFolderId <= MaxFolders
       /\ createFolder("u2", NoFolder)
    \/ \E d \in DocIds, r \in {"viewer", "editor"} : addCollaborator("u1", d, "u2", r)
    \/ \E d \in DocIds, r \in {"viewer", "editor"} :
         updateCollaboratorRole("u1", d, "u2", r)
    \/ \E d \in DocIds : deleteDocument("u1", d)
    \/ \E d \in DocIds :
         /\ Len(documentVersions) < MaxVersionRows
         /\ createVersion("u1", d)
    \/ \E d \in DocIds : updateDocument("u2", d, <<"t1">>, <<"c1">>, NoFolder)
    \/ \E d \in DocIds : renameDocument("u2", d, "t1")
    \/ \E d \in DocIds, f \in {NoFolder} \cup FolderIds : moveDocument("u2", d, f)
    \/ \E d \in DocIds : updateDocumentContent("u2", d, "c1")
    \/ \E d \in DocIds : updateDocumentTitle("u2", d, "t1")
    \/ \E d \in DocIds : batchUpdateDocument("u2", d, Undefined, <<"c1">>)
    \/ \E d \in DocIds : prosemirrorCheckWrite("u2", d)
    \/ \E d \in DocIds : onSnapshot(d, "c1")
    \/ \E i \in 1 .. MaxVersionRows :
         /\ Len(documentVersions) < MaxVersionRows
         /\ restoreVersion("u2", i)
    \/ \E f \in FolderIds, deleteContents \in BOOLEAN :
         deleteFolder("u2", f, deleteContents)

SpecViewer == Init /\ [][NextViewer]_vars

\* the operations the claim lists; "checkWrite" is the live-sync write check
ListedOperations ==
    {"updateDocument", "renameDocument", "moveDocument", "updateDocumentContent",
     "updateDocumentTitle", "batchUpdateDocument", "checkWrite", "restoreVersion"}

\* the caller of the call does not own d and holds a viewer grant on it
OnlyViewer(d, u) ==
    /\ Exists(d)
    /\ documents[d].ownerId # u
    /\ HasGrant(d, u)
    /\ GrantRole(d, u) = "viewer"

\* C25: no call of a user who does not own document d and holds a viewer
\* grant on it changes d's content, title or folder placement, and each listed
\* operation called on d by that user fails, with Forbidden on a live document
C25_ViewerCannotWrite ==
    [][\A d \in DocIds :
         OnlyViewer(d, last'.user)
         => /\ d \in DOMAIN documents'
            /\ documents'[d].content = documents[d].content
            /\ documents'[d].title = documents[d].title
            /\ documents'[d].parentFolderId = documents[d].parentFolderId
            /\ (last'.op \in ListedOperations /\ last'.doc = d)
               => /\ documents' = documents
                  /\ last'.code # "ok"
                  /\ ~documents[d].isDeleted => last'.code = "FORBIDDEN"]_vars

----------------------------------------------------------------------------
(* The undo specification: the owner and an editor edit one document, take a
   version of it, restore it and restore the backup the restore inserted *)

NextUndo ==
    \/ /\ documents = <<>>
       /\ createDocument("u1", <<"t0">>, <<"c0">>, NoFolder)
    \/ \E d \in DocIds : addCollaborator("u1", d, "u2", "editor")
    \/ \E d \in DocIds, title \in {<<"t1">>, Undefined}, content \in {<<"c1">>, Undefined} :
         updateDocument("u1", d, title, content, NoFolder)
    \/ \E d \in DocIds :
         /\ Len(documentVersions) < MaxVersionRows - 1
         /\ createVersion("u1", d)
    \/ \E u \in {"u1", "u2"}, i \in 1 .. MaxVersionRows + 1 :
         /\ Len(documentVersions) <= MaxVersionRows
         /\ restoreVersion(u, i)

SpecUndo == Init /\ [][NextUndo]_vars

\* C26: when a successful restoreVersion on document d is followed at once by
\* a successful restoreVersion of the backup the first one inserted, d has the
\* content and the title it had before the first of the two
C26_RestoreReversible ==
    [][\A d \in DocIds :
         (/\ Succeeded(last, "restoreVersion")
          /\ last.doc = d
          /\ Succeeded(last', "restoreVersion")
          /\ last'.ver = Len(documentVersions))
         => /\ last'.doc = d
            /\ documents'[d].content = last.out
            /\ documents'[d].title = last.note]_vars

\* a restore that changed both the content and the title of the document has
\* been undone by an editor's restore of its backup
C26_Witness ==
    /\ Succeeded(last, "restoreVersion")
    /\ last.user = "u2"
    /\ Len(documentVersions) = 3
    /\ last.ver = 2
    /\ documents[last.doc].content = documentVersions[2].content
    /\ documents[last.doc].title = documentVersions[2].title
    /\ documents[last.doc].content # documentVersions[1].content
    /\ documents[last.doc].title # documentVersions[1].title
    /\ documentVersions[3].content = documentVersions[1].content

----------------------------------------------------------------------------
(* The folder specification: u1 builds a tree of folders with a document in
   it, moves and deletes folders; u2 tries to move them.  A caller can name
   as new parent only an id the store has handed out, of a folder stored or
   deleted: ids are generated by the store and never used twice *)

TreeFolderIds == 1 .. MaxFolders + 2

NextFolders ==
    \/ \E parentId \in {NoFolder} \cup TreeFolderIds :
         /\ nextFolderId \in TreeFolderIds
         /\ createFolder("u1", parentId)
    \/ \E f \in TreeFolderIds :
         /\ documents = <<>>
         /\ f \in DOMAIN folders
         /\ createDocument("u1", <<"t0">>, <<"c0">>, f)
    \/ \E u \in {"u1", "u2"}, f \in TreeFolderIds, p \in {NoFolder} \cup TreeFolderIds :
         /\ p < nextFolderId
         /\ moveFolder(u, f, p)
    \/ \E f \in TreeFolderIds, deleteContents \in BOOLEAN :
         deleteFolder("u1", f, deleteContents)

SpecFolders == Init /\ [][NextFolders]_vars

\* the folder reached from f by k steps up the parentId references, NoFolder
\* when the walk leaves the folders stored
RECURSIVE Up(_, _)
Up(f, k) ==
    IF k = 0 THEN f
    ELSE LET g == Up(f, k - 1)
         IN  IF g \in DOMAIN folders THEN folders[g].parentId ELSE NoFolder

\* f is an ancestor of g
Ancestor(f, g) == \E k \in 1 .. MaxFolders + 2 : Up(g, k) = f

Acyclic == \A f \in DOMAIN folders : ~Ancestor(f, f)

\* C27: no folder is ever its own ancestor; and a moveFolder(f, p) by the
\* owner of f with p = f, or with f an ancestor of p, fails with
\* VALIDATION_ERROR and changes nothing
C27_FoldersAcyclic ==
    [][/\ Acyclic'
       /\ \A f \in DOMAIN folders, p \in TreeFolderIds :
            (/\ last'.op = "moveFolder"
             /\ last'.folder = f
             /\ last'.note = ToString(p)
             /\ last'.user = folders[f].ownerId
             /\ p = f \/ Ancestor(f, p))
            => /\ last'.code = "VALIDATION_ERROR"
               /\ tables' = tables]_vars

\* the move of a folder under its grandchild has just been rejected
C27_Witness ==
    /\ last.op = "moveFolder"
    /\ last.code = "VALIDATION_ERROR"
    /\ \E f, g, h \in DOMAIN folders :
         /\ last.folder = f
         /\ last.note = ToString(h)
         /\ folders[h].parentId = g
         /\ folders[g].parentId = f
         /\ f # g /\ g # h /\ f # h

----------------------------------------------------------------------------
(* The error specification: every mutation of documents.ts, realtime.ts, the
   collaborators file and versions.ts, called by the owner u1, by u2 with and
   without a grant and by a caller without identity, on the one document of
   the specification, which is absent, live or soft-deleted and has a grant,
   versions and a presence row *)

Callers == {"u1", "u2", Anon}

\* the usernames callers give, in code units: "Zed" between a line tabulation
\* and a no-break space, and one of white space only (space, line separator,
\* zero width no-break space, ideographic space)
GivenUsernames == {<<11, 90, 101, 100, 160>>, <<32, 8232, 65279, 12288>>}

\* the calls address the document created last, or the id that comes next
Addressed == {d \in DocIds : d >= nextDocId - 1}

NextErrors ==
    \/ /\ nextDocId = 1
       /\ createDocument("u1", <<"t0">>, <<"c0">>, NoFolder)
    \/ \E d \in Addressed :
         /\ <<d, "u2">> \notin DOMAIN userPresence
         /\ HasGrant(d, "u2")
         /\ updatePresence("u2", d)
    \/ \E u \in Callers, d \in Addressed, w \in {"u1", "u2"} :
         addCollaborator(u, d, w, "viewer")
    \/ \E u \in Callers, d \in Addressed, username \in GivenUsernames,
          targetUser \in {NoUser, <<"u1">>, <<"u2">>} :
         \* the username and the user found matter to the owner's calls only
         /\ \/ toLowerCase(trim(username)) # <<>> /\ targetUser = <<"u2">>
            \/ /\ Exists(d) /\ documents[d].ownerId = u
               /\ toLowerCase(trim(username)) # <<>> \/ targetUser = NoUser
         /\ addCollaboratorByUsername(u, d, username, "viewer", targetUser)
    \/ \E u \in Callers, d \in Addressed : removeCollaborator(u, d, "u2")
    \/ \E u \in Callers, d \in Addressed, r \in {"viewer", "editor"} :
         updateCollaboratorRole(u, d, "u2", r)
    \/ \E u \in Callers, d \in Addressed : leaveDocument(u, d)
    \/ \E u \in Callers, d \in Addressed, w \in {"u1", "u2"} : transferOwnership(u, d, w)
    \/ \E u \in Callers, d \in Addressed : updateDocument(u, d, <<"t0">>, Undefined, NoFolder)
    \/ \E u \in Callers, d \in Addressed : renameDocument(u, d, "t0")
    \/ \E u \in Callers, d \in Addressed, f \in {NoFolder, nextFolderId} :
         moveDocument(u, d, f)
    \/ \E u \in Callers, d \in Addressed : deleteDocument(u, d)
    \/ \E u \in Callers, d \in Addressed : restoreDocument(u, d)
    \/ \E u \in Callers, d \in Addressed : permanentlyDeleteDocument(u, d)
    \/ \E u \in Callers, d \in Addressed :
         \* the calls the handler turns away; a copy is made in the duplicate
         \* specification
         /\ u = Anon \/ checkDocumentAccess(d, u, "viewer") # "ok"
         /\ duplicateDocument(u, d)
    \/ \E u \in Callers : emptyTrash(u)
    \/ \E u \in Callers, d \in Addressed : updateDocumentContent(u, d, "c0")
    \/ \E u \in Callers, d \in Addressed : updateDocumentTitle(u, d, "t0")
    \/ \E u \in Callers, d \in Addressed : batchUpdateDocument(u, d, <<"t0">>, Undefined)
    \/ cleanupOldVersions
    \/ \E u \in Callers, d \in Addressed :
         /\ Len(documentVersions) < MaxVersionRows - 1
         /\ createVersion(u, d)
    \/ \E u \in Callers, d \in Addressed :
         /\ Len(documentVersions) < MaxVersionRows - 1
         /\ autoCreateVersion(u, d)
    \/ \E u \in Callers, i \in 1 .. MaxVersionRows :
         /\ Len(documentVersions) < MaxVersionRows
         /\ restoreVersion(u, i)
    \/ \E u \in Callers, i \in 1 .. MaxVersionRows : deleteVersion(u, i)

SpecErrors == Init /\ [][NextErrors]_vars

\* the document, collaborator and version mutations: those of documents.ts,
\* realtime.ts, the collaborators file and versions.ts
Mutations ==
    {"createDocument", "updateDocument", "renameDocument", "moveDocument",
     "deleteDocument", "restoreDocument", "permanentlyDeleteDocument",
     "duplicateDocument", "emptyTrash",
     "updateDocumentContent", "updateDocumentTitle", "batchUpdateDocument",
     "cleanupOldVersions",
     "addCollaborator", "addCollaboratorByUsername", "removeCollaborator",
     "updateCollaboratorRole", "leaveDocument", "transferOwnership",
     "createVersion", "autoCreateVersion", "restoreVersion", "deleteVersion"}

\* the call ended in an error: it neither finished nor returned a boolean
EndedInError(call) == call.op \in Mutations /\ call.code \notin {"ok", "true", "false"}

\* C28: a document, collaborator or version mutation that ends in an error
\* leaves the document, grant, version and presence tables as they were
C28_ErrorsWriteNothing ==
    [][EndedInError(last') =>
         /\ documents' = documents
         /\ documentCollaborators' = documentCollaborators
         /\ documentVersions' = documentVersions
         /\ userPresence' = userPresence]_vars

\* a viewer's restoreVersion has just been refused on a document that has a
\* grant, a version and a presence row
C28_Witness ==
    /\ last.op = "restoreVersion"
    /\ last.code = "FORBIDDEN"
    /\ last.user = "u2"
    /\ Exists(last.doc)
    /\ HasGrant(last.doc, "u2")
    /\ GrantRole(last.doc, "u2") = "viewer"
    /\ VersionsOf(last.doc) # <<>>
    /\ <<last.doc, "u2">> \in DOMAIN userPresence

----------------------------------------------------------------------------
(* The soft-delete specification: the owner gives and changes grants of every
   role value the validator accepts, and every caller tries to soft-delete *)

NextSoftDelete ==
    \/ /\ nextDocId <= MaxDocs
       /\ createDocument("u1", <<"t0">>, <<"c0">>, NoFolder)
    \/ \E d \in DocIds, w \in {"u2", "u3"}, r \in roleValidator :
         addCollaborator("u1", d, w, r)
    \/ \E d \in DocIds, r \in roleValidator : updateCollaboratorRole("u1", d, "u2", r)
    \/ \E u \in Users \cup {Anon}, d \in DocIds : deleteDocument(u, d)
    \/ \E d \in DocIds : restoreDocument("u1", d)

SpecSoftDelete == Init /\ [][NextSoftDelete]_vars

\* C29: a deleteDocument succeeds only when the caller is the document's
\* owner; a caller who holds a grant, of whatever role, and is not the owner
\* is refused and the document stays as it is
C29_OnlyOwnerSoftDeletes ==
    [][ \A d \in DocIds :
          (last'.op = "deleteDocument" /\ last'.doc = d /\ Exists(d)) =>
            /\ last'.code = "ok" => last'.user = documents[d].ownerId
            /\ (documents[d].ownerId # last'.user /\ HasGrant(d, last'.user))
                 => (last'.code # "ok" /\ documents' = documents) ]_vars

----------------------------------------------------------------------------
(* The integrity specification: u1 and u2 each create a document; versions
   and grants are inserted, ownership is transferred, documents are
   soft-deleted, purged and emptied from the trash; the calls also address
   documents that are purged already *)

\* the caller of a call on document d: its owner, and u1 when it is purged
CallerOn(d) == IF Exists(d) THEN documents[d].ownerId ELSE "u1"

NextIntegrity ==
    \/ /\ nextDocId \in EmptyDocIds
       /\ createDocument(Creator, <<"t0">>, <<"c0">>, NoFolder)
    \/ \E d \in EmptyDocIds : addCollaborator(CallerOn(d), d, "u3", "editor")
    \/ \E d \in DOMAIN documents :
         /\ <<d, "u3">> \notin DOMAIN userPresence
         /\ HasGrant(d, "u3")
         /\ updatePresence("u3", d)
    \/ \E d \in EmptyDocIds :
         /\ Len(documentVersions) < MaxVersionRows - 1
         /\ createVersion(CallerOn(d), d)
    \/ \E d \in EmptyDocIds :
         /\ Len(documentVersions) < MaxVersionRows - 1
         /\ autoCreateVersion(CallerOn(d), d)
    \/ \E i \in 1 .. MaxVersionRows :
         /\ Len(documentVersions) < MaxVersionRows
         /\ restoreVersion("u3", i)
    \/ \E d \in EmptyDocIds : transferOwnership("u1", d, "u3")
    \/ \E d \in DOMAIN documents : deleteDocument(documents[d].ownerId, d)
    \/ \E d \in EmptyDocIds : permanentlyDeleteDocument(CallerOn(d), d)
    \/ \E u \in {"u1", "u2", "u3"} : emptyTrash(u)

SpecIntegrity == Init /\ [][NextIntegrity]_vars

\* C30: every version and every grant stored references a document stored,
\* soft-deleted or not
C30_NoOrphans ==
    /\ \A i \in 1 .. Len(documentVersions) : Exists(documentVersions[i].documentId)
    /\ \A g \in BagToSet(documentCollaborators) : Exists(g.documentId)

\* a document that had grants, versions and presence rows has just been
\* purged, and the other document keeps its grant
C30_Witness ==
    /\ Succeeded(last, "permanentlyDeleteDocument")
    /\ last.note = "cascade"
    /\ ~Exists(last.doc)
    /\ documentCollaborators # EmptyBag

====
